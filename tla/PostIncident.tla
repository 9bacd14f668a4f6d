----------------------------- MODULE PostIncident -----------------------------
(***************************************************************************)
(* What follows an incident: the tasks that summarise it with a language    *)
(* model (coordinator/app/incidents/ai_summary.py) and that alert by email  *)
(* and webhook (alerting.py), started by the detector and by the incidents  *)
(* API, with the alert rules they read (api/v1/services.py).                *)
(*                                                                          *)
(* One incident of one service. The tasks are coroutines that share nothing *)
(* but its row; every await of theirs is an action, and between two of them *)
(* the rules change, the service is deleted or the process dies. A session  *)
(* writes only the columns whose values differ from those it read.          *)
(***************************************************************************)
EXTENDS Integers

CONSTANTS
  Requests,   \* calls of POST /incidents/{id}/generate-summary
  Rules,      \* the alert rules, told apart by channel and destination
  OnIncident, OnResolve,  \* the rules with that flag
  Answers,    \* what the model may answer, as the JSON stored in ai_structured
  Text,       \* the display text of each answer
  None,       \* NULL
  Malformed,  \* an answer that _parse_response raises on
  MaxFaults   \* bound on database errors and crashes

AlertTasks == {"opened", "resolved"}

Tasks == AlertTasks \union Requests

Texts == {Text[a] : a \in Answers}

ASSUME RulesAssumption == OnIncident \subseteq Rules /\ OnResolve \subseteq Rules
ASSUME TextAssumption == Text \in [Answers -> Texts]
ASSUME NoneAssumption == None \notin Answers \union Texts /\ Malformed \notin Answers /\ Malformed # None
ASSUME RequestsAssumption == Requests \intersect AlertTasks = {}
ASSUME BoundAssumption == MaxFaults \in Nat

VARIABLES
  life,      \* the incident: "none", "open", "resolved", or "deleted" with its service
  row,       \* its columns ai_structured, ai_summary, alert_sent
  chunks,    \* its rows in incident_context
  rules,     \* the alert rules of the service
  ai,        \* AI_ENABLED, with a key of a provider
  pc,        \* per task, the await it is at
  answer,    \* per task, what the model answered
  view,      \* per task, the row as its session loaded it
  listed,    \* per alert task, the rules it loaded
  tried,     \* per alert task, the rules it has dispatched
  summaries, \* metrics.ai_summaries_generated of the process
  faults     \* database errors and crashes so far

database == <<life, row, chunks, rules>>
vars == <<database, ai, pc, answer, view, listed, tried, summaries, faults>>

-----------------------------------------------------------------------------
\* Data

Row == [structured : Answers \union {None}, text : Texts \union {None}, sent : BOOLEAN]

NewRow == [structured |-> None, text |-> None, sent |-> FALSE]

Phases == {"idle", "summary", "asking", "saving", "storing", "alert", "sending", "done", "dead"}

TypeOK ==
  /\ life \in {"none", "open", "resolved", "deleted"}
  /\ row \in Row
  /\ chunks \in Nat
  /\ rules \subseteq Rules
  /\ ai \in BOOLEAN
  /\ pc \in [Tasks -> Phases]
  /\ answer \in [Tasks -> Answers \union {None, Malformed}]
  /\ view \in [Tasks -> Row]
  /\ listed \in [AlertTasks -> SUBSET Rules]
  /\ tried \in [AlertTasks -> SUBSET Rules]
  /\ summaries \in Nat
  /\ faults \in Nat

-----------------------------------------------------------------------------
\* Helpers

Present == life \in {"open", "resolved"}

Goto(t, phase) == pc' = [pc EXCEPT ![t] = phase]

\* A session ends with the rows it loaded.
Close(t) == view' = [view EXCEPT ![t] = NewRow]

\* What a task does once it is through with the summary.
AfterSummary(t) == IF t = "opened" THEN "alert" ELSE "done"

Wanted(t) == IF t = "opened" THEN OnIncident ELSE OnResolve

\* The rules the loop of send_incident_alert has still to dispatch.
Todo(t) == (listed[t] \intersect Wanted(t)) \ tried[t]

\* Mutant: the structured answer is stored as the text.
WriteSummarySwapped(t) ==
  /\ row' = [structured |-> answer[t], text |-> answer[t], sent |-> row.sent]
  /\ chunks' = chunks + 1

\* Mutant: a summary that is there already is left as it is.
WriteSummaryOnce(t) ==
  /\ row' = [structured |-> answer[t],
             text |-> IF row.text = None THEN Text[answer[t]] ELSE row.text,
             sent |-> row.sent]
  /\ chunks' = chunks + 1

\* Mutant: the context chunk is committed with the next summary.
WriteSummaryAlone(t) ==
  /\ row' = [structured |-> answer[t], text |-> Text[answer[t]], sent |-> row.sent]
  /\ chunks' = IF row.text = None THEN chunks ELSE chunks + 1

\* UPDATE of the columns that differ from the loaded ones, and INSERT of the
\* context chunk, in one transaction.
WriteSummary(t) ==
  /\ row' = [structured |-> IF answer[t] = view[t].structured THEN row.structured ELSE answer[t],
             text |-> IF Text[answer[t]] = view[t].text THEN row.text ELSE Text[answer[t]],
             sent |-> row.sent]
  /\ chunks' = chunks + 1

\* Mutant: the whole row is written back, with the summary as it was loaded.
WriteRow(t) ==
  row' = [structured |-> view[t].structured, text |-> view[t].text, sent |-> TRUE]

\* UPDATE of alert_sent, or nothing when it was loaded as true.
WriteSent(t) ==
  row' = IF view[t].sent THEN row
         ELSE [structured |-> row.structured, text |-> row.text, sent |-> TRUE]

-----------------------------------------------------------------------------
\* The detector and the API

\* _evaluate commits a new incident and starts _post_open_tasks.
Open ==
  /\ life = "none"
  /\ life' = "open"
  /\ Goto("opened", "summary")
  /\ UNCHANGED <<row, chunks, rules, ai, answer, view, listed, tried, summaries, faults>>

\* _evaluate commits resolved_at and starts _post_resolve_tasks.
Resolve ==
  /\ life = "open"
  /\ life' = "resolved"
  /\ Goto("resolved", "alert")
  /\ UNCHANGED <<row, chunks, rules, ai, answer, view, listed, tried, summaries, faults>>

\* trigger_ai_summary finds the incident and queues the background task.
Request(q) ==
  /\ pc[q] = "idle" /\ Present
  /\ Goto(q, "summary")
  /\ UNCHANGED <<database, ai, answer, view, listed, tried, summaries, faults>>

\* A rule that is there already is a conflict, and nothing changes.
CreateRule(r) ==
  /\ life # "deleted" /\ r \notin rules
  /\ rules' = rules \union {r}
  /\ UNCHANGED <<life, row, chunks, ai, pc, answer, view, listed, tried, summaries, faults>>

DeleteRule(r) ==
  /\ r \in rules
  /\ rules' = rules \ {r}
  /\ UNCHANGED <<life, row, chunks, ai, pc, answer, view, listed, tried, summaries, faults>>

\* DELETE of the service takes its rules, incidents and context with it.
DeleteService ==
  /\ life # "deleted"
  /\ life' = "deleted"
  /\ row' = NewRow /\ chunks' = 0 /\ rules' = {}
  /\ UNCHANGED <<ai, pc, answer, view, listed, tried, summaries, faults>>

Api ==
  \/ \E r \in Rules : CreateRule(r) \/ DeleteRule(r)
  \/ \E q \in Requests : Request(q)
  \/ DeleteService

-----------------------------------------------------------------------------
\* generate_and_store_summary

\* Returns at once without a model to ask or without the incident; otherwise
\* builds the prompt from what it reads and closes its session. Of its three
\* SELECTs only the first, of the incident, decides anything.
LoadPrompt(t) ==
  /\ pc[t] = "summary"
  /\ Goto(t, IF ai /\ Present THEN "asking" ELSE AfterSummary(t))
  /\ UNCHANGED <<database, ai, answer, view, listed, tried, summaries, faults>>

\* Mutant: the alert does not wait for the summary to be stored.
AnsweredInBackground(t) ==
  /\ pc[t] = "asking"
  /\ \E a \in Answers : answer' = [answer EXCEPT ![t] = a]
  /\ Goto(t, IF t = "opened" THEN "alert" ELSE "saving")
  /\ UNCHANGED <<database, ai, view, listed, tried, summaries, faults>>

Answered(t) ==
  /\ pc[t] = "asking"
  /\ \E a \in Answers : answer' = [answer EXCEPT ![t] = a]
  /\ Goto(t, "saving")
  /\ UNCHANGED <<database, ai, view, listed, tried, summaries, faults>>

\* Mutant: a failed call of the model ends the task.
AskFailedRaises(t) ==
  /\ pc[t] = "asking"
  /\ Goto(t, "dead")
  /\ UNCHANGED <<database, ai, answer, view, listed, tried, summaries, faults>>

\* The call of the model raises; it is logged.
AskFailed(t) ==
  /\ pc[t] = "asking"
  /\ Goto(t, AfterSummary(t))
  /\ UNCHANGED <<database, ai, answer, view, listed, tried, summaries, faults>>

\* Valid JSON that is no object, a confidence that is no number, actions that
\* are null: the exception is not caught and ends the whole task.
AnswerMalformed(t) ==
  /\ pc[t] = "asking"
  /\ answer' = [answer EXCEPT ![t] = Malformed]
  /\ Goto(t, "dead")
  /\ UNCHANGED <<database, ai, view, listed, tried, summaries, faults>>

\* A second session loads the row to write to.
LoadRow(t) ==
  /\ pc[t] = "saving"
  /\ view' = [view EXCEPT ![t] = row]
  /\ Goto(t, IF Present THEN "storing" ELSE AfterSummary(t))
  /\ UNCHANGED <<database, ai, answer, listed, tried, summaries, faults>>

\* An UPDATE that finds no row is a StaleDataError.
Store(t) ==
  /\ pc[t] = "storing"
  /\ IF Present
     THEN /\ WriteSummary(t)
          /\ summaries' = summaries + 1
          /\ Goto(t, AfterSummary(t))
     ELSE /\ Goto(t, "dead")
          /\ UNCHANGED <<row, chunks, summaries>>
  /\ Close(t)
  /\ UNCHANGED <<life, rules, ai, answer, listed, tried, faults>>

Summarise(t) ==
  \/ LoadPrompt(t) \/ Answered(t) \/ AskFailed(t) \/ AnswerMalformed(t)
  \/ LoadRow(t) \/ Store(t)

-----------------------------------------------------------------------------
\* send_incident_alert

\* Returns when the incident or the rules are gone.
LoadRules(t) ==
  /\ pc[t] = "alert"
  /\ IF Present /\ rules # {}
     THEN /\ view' = [view EXCEPT ![t] = row]
          /\ listed' = [listed EXCEPT ![t] = rules]
          /\ Goto(t, "sending")
     ELSE Goto(t, "done") /\ UNCHANGED <<view, listed>>
  /\ UNCHANGED <<database, ai, answer, tried, summaries, faults>>

\* The message, built from the row as it was loaded, is sent, fails, or is
\* skipped for want of an SMTP account: _dispatch swallows every exception, so
\* the loop goes on alike.
Dispatch(t) ==
  /\ pc[t] = "sending"
  /\ \E r \in Todo(t) : tried' = [tried EXCEPT ![t] = @ \union {r}]
  /\ UNCHANGED <<database, ai, pc, answer, view, listed, summaries, faults>>

\* Mutant: the commit does not wait for the dispatches.
MarkEarly(t) ==
  /\ pc[t] = "sending"
  /\ Present \/ view[t].sent
  /\ WriteSent(t)
  /\ Goto(t, "done")
  /\ Close(t)
  /\ UNCHANGED <<life, chunks, rules, ai, answer, listed, tried, summaries, faults>>

\* alert_sent is set however the dispatches ended. An UPDATE that finds no row
\* is a StaleDataError.
Mark(t) ==
  /\ pc[t] = "sending" /\ Todo(t) = {}
  /\ IF Present \/ view[t].sent
     THEN WriteSent(t) /\ Goto(t, "done")
     ELSE Goto(t, "dead") /\ UNCHANGED row
  /\ Close(t)
  /\ UNCHANGED <<life, chunks, rules, ai, answer, listed, tried, summaries, faults>>

Alert(t) == LoadRules(t) \/ Dispatch(t) \/ Mark(t)

-----------------------------------------------------------------------------
\* Faults

\* A statement or a commit of a task's session fails and ends the task, as does
\* a client of the model that cannot be built (_get_provider is outside the try).
DatabaseError(t) ==
  /\ faults < MaxFaults /\ faults' = faults + 1
  /\ pc[t] \in {"summary", "saving", "storing", "alert"} \/ (pc[t] = "sending" /\ Todo(t) = {})
  /\ Goto(t, "dead") /\ Close(t)
  /\ UNCHANGED <<database, ai, answer, listed, tried, summaries>>

\* The commit is applied, its answer lost.
CommitLost(t) ==
  /\ faults < MaxFaults /\ faults' = faults + 1
  /\ Present
  /\ \/ pc[t] = "storing" /\ WriteSummary(t)
     \/ pc[t] = "sending" /\ Todo(t) = {} /\ WriteSent(t) /\ UNCHANGED chunks
  /\ Goto(t, "dead") /\ Close(t)
  /\ UNCHANGED <<life, rules, ai, answer, listed, tried, summaries>>

\* The detector's own commit is applied, and its answer or its process lost:
\* the incident changes and nobody starts the task.
TaskNeverStarted ==
  /\ faults < MaxFaults /\ faults' = faults + 1
  /\ \/ life = "none" /\ life' = "open"
     \/ life = "open" /\ life' = "resolved"
  /\ UNCHANGED <<row, chunks, rules, ai, pc, answer, view, listed, tried, summaries>>

\* The process dies with its tasks and counters. Nothing finds out later which
\* incidents it had not told of.
Crash ==
  /\ faults < MaxFaults /\ faults' = faults + 1
  /\ pc' = [t \in Tasks |-> IF pc[t] \in {"idle", "done"} THEN pc[t] ELSE "dead"]
  /\ summaries' = 0
  /\ view' = [t \in Tasks |-> NewRow]
  /\ UNCHANGED <<database, ai, answer, listed, tried>>

Fault ==
  \/ \E t \in Tasks : DatabaseError(t) \/ CommitLost(t)
  \/ TaskNeverStarted \/ Crash

-----------------------------------------------------------------------------

Init ==
  /\ life = "none" /\ row = NewRow /\ chunks = 0
  /\ rules \in SUBSET Rules
  /\ ai \in BOOLEAN
  /\ pc = [t \in Tasks |-> "idle"]
  /\ answer = [t \in Tasks |-> None]
  /\ view = [t \in Tasks |-> NewRow]
  /\ listed = [t \in AlertTasks |-> {}]
  /\ tried = [t \in AlertTasks |-> {}]
  /\ summaries = 0 /\ faults = 0

Task(t) == Summarise(t) \/ (t \in AlertTasks /\ Alert(t))

Next == Open \/ Resolve \/ Api \/ Fault \/ \E t \in Tasks : Task(t)

Spec == Init /\ [][Next]_vars

\* The event loop runs what is ready, and every call a task awaits returns or
\* raises: the clients of the model, of SMTP and of the webhooks have timeouts.
Fairness == \A t \in Tasks : WF_vars(Task(t))

FairSpec == Spec /\ Fairness

-----------------------------------------------------------------------------
\* Properties

DistinctTexts == \A a, b \in Answers : Text[a] = Text[b] => a = b

\* The text shown and sent is the text of the structured summary beside it,
\* also after two summaries of one incident were stored by sessions that
\* overlap and each wrote the columns it saw changed (ai_summary.py:190-196);
\* unless two answers read alike, when only one column seems to change.
TextOfStructured ==
  DistinctTexts =>
    \/ row.structured = None /\ row.text = None
    \/ row.structured \in Answers /\ row.text = Text[row.structured]

\* An incident has context chunks exactly when it has a summary, whatever
\* fails between, and no fewer than the process counts (ai_summary.py:185-200).
ContextFollowsSummary ==
  Present => (chunks > 0 <=> row.text # None) /\ summaries <= chunks

\* alert_sent means that some task found rules and tried each of those that
\* wanted its event; not that any message left (alerting.py:33-45).
SentMeansTried ==
  row.sent => \E t \in AlertTasks : listed[t] # {} /\ Todo(t) = {}

\* The opened alert carries a summary whenever its task has generated one: it
\* waits for the row to be stored and loads it afresh (detector.py:166-167).
OpenedAlertCarriesSummary ==
  pc["opened"] = "sending" /\ answer["opened"] \in Answers => view["opened"].text # None

\* The commit of an alert, whose row was loaded before its messages were sent,
\* erases no summary that was stored meanwhile (alerting.py:44-45).
SummaryIsKept ==
  [][life' # "deleted" /\ row.text # None => row'.text # None]_vars

\* A rule that wants the event when its task starts is tried, whether the model
\* answers, fails or is not there; unless the process or the database fails,
\* the rule or the service is deleted, or the answer is malformed
\* (detector.py:162-173).
Escaped(t, r) == faults > 0 \/ r \notin rules \/ answer[t] = Malformed

WantedRulesAreTold ==
  \A t \in AlertTasks : \A r \in Rules :
    (pc[t] \in {"summary", "alert"} /\ r \in rules \intersect Wanted(t))
      ~> (r \in tried[t] \/ Escaped(t, r))

=============================================================================
