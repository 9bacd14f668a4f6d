-------------------------- MODULE PostIncidentProofs --------------------------
(***************************************************************************)
(* Proofs about PostIncident, for all sets of requests, rules and answers   *)
(* and any number of database errors and crashes: types, and that summary,  *)
(* context chunks, alerts and alert_sent agree whatever the tasks and the   *)
(* API do between each other's steps; and that no alert is lost without a   *)
(* fault, a malformed answer or a deletion.                                 *)
(***************************************************************************)
EXTENDS PostIncident, TLAPS

\* A structured summary and its text, or neither.
Pair(r) ==
  \/ r.structured = None /\ r.text = None
  \/ r.structured \in Answers /\ r.text = Text[r.structured]

\* No task runs before the incident is there, nor one of its resolution before
\* it is resolved.
BegunInv ==
  /\ life = "none" =>
       /\ row = NewRow /\ chunks = 0 /\ summaries = 0
       /\ \A t \in Tasks : pc[t] = "idle" /\ view[t] = NewRow
  /\ life \in {"none", "open"} => pc["resolved"] = "idle"

\* A task has an answer from when the model gives one.
AnswerInv ==
  \A t \in Tasks :
    /\ pc[t] \in {"idle", "summary", "asking"} => answer[t] = None
    /\ pc[t] \in {"saving", "storing"} => answer[t] \in Answers

\* A request for a summary sends no alert.
RequestInv == \A q \in Requests : pc[q] \notin {"alert", "sending"}

\* An alert task loads rules once, and goes on only if there are some.
ListedInv ==
  \A t \in AlertTasks :
    /\ pc[t] \in {"idle", "summary", "asking", "saving", "storing", "alert"} => listed[t] = {}
    /\ pc[t] = "sending" => listed[t] # {}

\* A session that loaded a summary was not mistaken: summaries stay.
ViewInv ==
  life # "deleted" => \A t \in Tasks : view[t].text # None => row.text # None

\* Chunks come with summaries.
ChunkInv ==
  life # "deleted" => (chunks > 0 <=> row.text # None) /\ summaries <= chunks

\* The opened alert starts after its summary is stored.
CarryInv ==
  /\ pc["opened"] = "alert" /\ answer["opened"] \in Answers /\ life # "deleted" => row.text # None
  /\ OpenedAlertCarriesSummary

\* Row and views are pairs.
PairInv == DistinctTexts => Pair(row) /\ \A t \in Tasks : Pair(view[t])

Inv ==
  /\ TypeOK
  /\ BegunInv /\ AnswerInv /\ RequestInv /\ ListedInv
  /\ ViewInv /\ ChunkInv

-----------------------------------------------------------------------------
\* Rows and tasks

LEMMA TaskFacts ==
  /\ "opened" \in Tasks /\ "resolved" \in Tasks
  /\ AlertTasks \subseteq Tasks
  /\ \A t \in Tasks : t \in AlertTasks \/ (t \in Requests /\ t \notin AlertTasks)
BY RequestsAssumption DEF Tasks, AlertTasks

\* A text is there once its answer is.
LEMMA TextFacts ==
  ASSUME NEW a \in Answers
  PROVE  Text[a] \in Texts /\ Text[a] # None
BY TextAssumption, NoneAssumption DEF Texts

LEMMA NewRowFacts ==
  /\ NewRow \in Row /\ NewRow.text = None /\ NewRow.structured = None /\ NewRow.sent = FALSE
  /\ Pair(NewRow)
BY DEF NewRow, Row, Pair

\* What a stored summary does to the row.
LEMMA SummaryWritten ==
  ASSUME TypeOK, NEW t \in Tasks, answer[t] \in Answers, WriteSummary(t)
  PROVE  /\ row' \in Row /\ row'.sent = row.sent /\ chunks' = chunks + 1
         /\ (view[t].text # None => row.text # None) => row'.text # None
         /\ row.text # None => row'.text # None
<1>1. row \in Row /\ view[t] \in Row /\ Text[answer[t]] \in Texts /\ Text[answer[t]] # None
  BY TextFacts DEF TypeOK
<1>2. row' = [structured |-> IF answer[t] = view[t].structured THEN row.structured ELSE answer[t],
              text |-> IF Text[answer[t]] = view[t].text THEN row.text ELSE Text[answer[t]],
              sent |-> row.sent]
      /\ chunks' = chunks + 1
  BY DEF WriteSummary
<1> QED
  BY <1>1, <1>2 DEF Row

\* Two sessions that overlap leave a pair.
LEMMA PairWritten ==
  ASSUME TypeOK, DistinctTexts, NEW t \in Tasks, answer[t] \in Answers, WriteSummary(t),
         Pair(row), Pair(view[t])
  PROVE  Pair(row')
<1>1. Text[answer[t]] # None
  BY TextFacts
<1>2. /\ row'.structured = IF answer[t] = view[t].structured THEN row.structured ELSE answer[t]
      /\ row'.text = IF Text[answer[t]] = view[t].text THEN row.text ELSE Text[answer[t]]
  BY DEF WriteSummary
<1>3. answer[t] = view[t].structured <=> Text[answer[t]] = view[t].text
  BY <1>1, NoneAssumption DEF Pair, DistinctTexts
<1> QED
  BY <1>2, <1>3 DEF Pair

\* What alert_sent does to the row.
LEMMA SentWritten ==
  ASSUME TypeOK, NEW t \in Tasks, WriteSent(t)
  PROVE  /\ row' \in Row
         /\ row'.structured = row.structured /\ row'.text = row.text
BY DEF TypeOK, WriteSent, Row

-----------------------------------------------------------------------------
\* Type correctness

LEMMA GotoType ==
  ASSUME TypeOK, NEW t \in Tasks, NEW phase \in Phases, Goto(t, phase)
  PROVE  pc' \in [Tasks -> Phases]
BY DEF TypeOK, Goto

LEMMA CloseType ==
  ASSUME TypeOK, NEW t \in Tasks, Close(t)
  PROVE  view' \in [Tasks -> Row]
BY NewRowFacts DEF TypeOK, Close

LEMMA AfterSummaryType ==
  ASSUME NEW t
  PROVE  AfterSummary(t) \in {"alert", "done"} /\ AfterSummary(t) \in Phases
BY DEF AfterSummary, Phases

LEMMA TypesInit == Init => TypeOK
BY BoundAssumption, NewRowFacts DEF Init, TypeOK, Phases

LEMMA TypesSummarise ==
  ASSUME TypeOK, AnswerInv, NEW t \in Tasks, Summarise(t)
  PROVE  TypeOK'
<1>1. CASE LoadPrompt(t)
  BY <1>1, GotoType, AfterSummaryType DEF LoadPrompt, TypeOK, database, Phases
<1>2. CASE Answered(t)
  BY <1>2, GotoType DEF Answered, TypeOK, database, Phases
<1>3. CASE AskFailed(t)
  BY <1>3, GotoType, AfterSummaryType DEF AskFailed, TypeOK, database
<1>4. CASE AnswerMalformed(t)
  BY <1>4, GotoType DEF AnswerMalformed, TypeOK, database, Phases
<1>5. CASE LoadRow(t)
  BY <1>5, GotoType, AfterSummaryType DEF LoadRow, TypeOK, database, Phases
<1>6. CASE Store(t)
  <2>1. pc' \in [Tasks -> Phases] /\ view' \in [Tasks -> Row]
    BY <1>6, GotoType, CloseType, AfterSummaryType DEF Store, Phases
  <2>2. row' \in Row /\ chunks' \in Nat /\ summaries' \in Nat
    BY <1>6, SummaryWritten DEF Store, TypeOK, AnswerInv
  <2> QED
    BY <1>6, <2>1, <2>2 DEF Store, TypeOK
<1> QED
  BY <1>1, <1>2, <1>3, <1>4, <1>5, <1>6 DEF Summarise

LEMMA TypesAlert ==
  ASSUME TypeOK, NEW t \in AlertTasks, Alert(t)
  PROVE  TypeOK'
<1>a. t \in Tasks
  BY TaskFacts
<1>1. CASE LoadRules(t)
  BY <1>1, <1>a, GotoType DEF LoadRules, TypeOK, database, Phases
<1>2. CASE Dispatch(t)
  BY <1>2 DEF Dispatch, Todo, TypeOK, database
<1>3. CASE Mark(t)
  <2>1. pc' \in [Tasks -> Phases] /\ view' \in [Tasks -> Row] /\ row' \in Row
    BY <1>3, <1>a, GotoType, CloseType, SentWritten DEF Mark, Phases, TypeOK
  <2> QED
    BY <1>3, <2>1 DEF Mark, TypeOK
<1> QED
  BY <1>1, <1>2, <1>3 DEF Alert

LEMMA TypesFault ==
  ASSUME TypeOK, AnswerInv, RequestInv, Fault
  PROVE  TypeOK'
<1>1. ASSUME NEW t \in Tasks, DatabaseError(t) PROVE TypeOK'
  BY <1>1, GotoType, CloseType DEF DatabaseError, TypeOK, database, Phases
<1>2. ASSUME NEW t \in Tasks, CommitLost(t) PROVE TypeOK'
  <2>1. pc' \in [Tasks -> Phases] /\ view' \in [Tasks -> Row]
    BY <1>2, GotoType, CloseType DEF CommitLost, Phases
  <2>2. row' \in Row /\ chunks' \in Nat
    BY <1>2, SummaryWritten, SentWritten DEF CommitLost, TypeOK, AnswerInv
  <2> QED
    BY <1>2, <2>1, <2>2 DEF CommitLost, TypeOK
<1>3. CASE TaskNeverStarted
  BY <1>3 DEF TaskNeverStarted, TypeOK
<1>4. CASE Crash
  BY <1>4, NewRowFacts DEF Crash, TypeOK, database, Phases
<1> QED
  BY <1>1, <1>2, <1>3, <1>4 DEF Fault

LEMMA TypesStep ==
  ASSUME TypeOK, AnswerInv, RequestInv, [Next]_vars
  PROVE  TypeOK'
<1>1. CASE Open
  BY <1>1, TaskFacts, GotoType DEF Open, TypeOK, Phases
<1>2. CASE Resolve
  BY <1>2, TaskFacts, GotoType DEF Resolve, TypeOK, Phases
<1>3. CASE Api
  <2>1. ASSUME NEW q \in Requests, Request(q) PROVE TypeOK'
    BY <2>1, GotoType DEF Request, TypeOK, database, Tasks, Phases
  <2>2. ASSUME NEW r \in Rules, CreateRule(r) \/ DeleteRule(r) PROVE TypeOK'
    BY <2>2 DEF CreateRule, DeleteRule, TypeOK
  <2>3. CASE DeleteService
    BY <2>3, NewRowFacts DEF DeleteService, TypeOK
  <2> QED
    BY <1>3, <2>1, <2>2, <2>3 DEF Api
<1>4. CASE Fault
  BY <1>4, TypesFault
<1>5. ASSUME NEW t \in Tasks, Task(t) PROVE TypeOK'
  BY <1>5, TypesSummarise, TypesAlert DEF Task
<1>6. CASE UNCHANGED vars
  BY <1>6 DEF vars, database, TypeOK
<1> QED
  BY <1>1, <1>2, <1>3, <1>4, <1>5, <1>6 DEF Next

-----------------------------------------------------------------------------
\* Where tasks are

LEMMA BegunStep ==
  ASSUME TypeOK, BegunInv, [Next]_vars
  PROVE  BegunInv'
<1>a. pc \in [Tasks -> Phases] /\ "opened" \in Tasks /\ "resolved" \in Tasks
  BY TaskFacts DEF TypeOK
<1>b. AlertTasks = {"opened", "resolved"} /\ "opened" # "resolved"
  BY DEF AlertTasks
<1>1. CASE Open
  BY <1>1, <1>a DEF Open, Goto, BegunInv
<1>2. CASE Resolve
  BY <1>2, <1>a DEF Resolve, Goto, BegunInv
<1>3. CASE Api
  BY <1>3, <1>a, RequestsAssumption DEF Api, CreateRule, DeleteRule, Request, DeleteService,
     Goto, Present, database, BegunInv, AlertTasks
<1>4. ASSUME NEW t \in Tasks, Summarise(t) PROVE BegunInv'
  BY <1>4, <1>a DEF Summarise, LoadPrompt, Answered, AskFailed, AnswerMalformed, LoadRow, Store,
     Goto, database, BegunInv
<1>5. ASSUME NEW t \in AlertTasks, Alert(t) PROVE BegunInv'
  BY <1>5, <1>a, <1>b DEF Alert, LoadRules, Dispatch, Mark, Goto, database, BegunInv
<1>6. CASE Fault
  BY <1>6, <1>a DEF Fault, DatabaseError, CommitLost, TaskNeverStarted, Crash, Goto, Close,
     Present, database, BegunInv
<1>7. CASE UNCHANGED vars
  BY <1>7 DEF vars, database, BegunInv
<1> QED
  BY <1>1, <1>2, <1>3, <1>4, <1>5, <1>6, <1>7 DEF Next, Task

LEMMA AnswerStep ==
  ASSUME TypeOK, BegunInv, AnswerInv, [Next]_vars
  PROVE  AnswerInv'
<1>a. pc \in [Tasks -> Phases] /\ answer \in [Tasks -> Answers \union {None, Malformed}]
  BY DEF TypeOK
<1>b. "opened" \in Tasks /\ "resolved" \in Tasks /\ AlertTasks \subseteq Tasks
  BY TaskFacts
<1>1. CASE Open \/ Resolve
  BY <1>1, <1>a, <1>b DEF Open, Resolve, Goto, BegunInv, AnswerInv
<1>3. CASE Api
  BY <1>3, <1>a DEF Api, CreateRule, DeleteRule, Request, DeleteService, Goto, AnswerInv
<1>4. ASSUME NEW t \in Tasks, Summarise(t) PROVE AnswerInv'
  <2>1. CASE LoadPrompt(t) \/ AskFailed(t)
    BY <1>a, <2>1 DEF LoadPrompt, AskFailed, AfterSummary, Goto, AnswerInv
  <2>2. CASE Answered(t) \/ AnswerMalformed(t)
    BY <1>a, <2>2 DEF Answered, AnswerMalformed, Goto, AnswerInv
  <2>3. CASE LoadRow(t) \/ Store(t)
    BY <1>a, <2>3 DEF LoadRow, Store, AfterSummary, Goto, AnswerInv
  <2> QED
    BY <1>4, <2>1, <2>2, <2>3 DEF Summarise
<1>5. ASSUME NEW t \in AlertTasks, Alert(t) PROVE AnswerInv'
  BY <1>5, <1>a, <1>b DEF Alert, LoadRules, Dispatch, Mark, Goto, AnswerInv
<1>6. CASE Fault
  BY <1>6, <1>a DEF Fault, DatabaseError, CommitLost, TaskNeverStarted, Crash, Goto, AnswerInv
<1>7. CASE UNCHANGED vars
  BY <1>7 DEF vars, AnswerInv
<1> QED
  BY <1>1, <1>3, <1>4, <1>5, <1>6, <1>7 DEF Next, Task

LEMMA RequestStep ==
  ASSUME TypeOK, RequestInv, [Next]_vars
  PROVE  RequestInv'
<1>a. pc \in [Tasks -> Phases]
  BY DEF TypeOK
<1>b. /\ "opened" \notin Requests /\ "resolved" \notin Requests
      /\ \A t \in AlertTasks : t \notin Requests
      /\ Requests \subseteq Tasks
  BY RequestsAssumption DEF AlertTasks, Tasks
<1>1. CASE Open \/ Resolve
  BY <1>1, <1>a, <1>b DEF Open, Resolve, Goto, RequestInv
<1>3. CASE Api
  BY <1>3, <1>a, <1>b DEF Api, CreateRule, DeleteRule, Request, DeleteService, Goto, RequestInv
<1>4. ASSUME NEW t \in Tasks, Summarise(t) PROVE RequestInv'
  BY <1>4, <1>a, <1>b DEF Summarise, LoadPrompt, Answered, AskFailed, AnswerMalformed, LoadRow,
     Store, AfterSummary, Goto, RequestInv
<1>5. ASSUME NEW t \in AlertTasks, Alert(t) PROVE RequestInv'
  BY <1>5, <1>a, <1>b DEF Alert, LoadRules, Dispatch, Mark, Goto, RequestInv
<1>6. CASE Fault
  BY <1>6, <1>a, <1>b DEF Fault, DatabaseError, CommitLost, TaskNeverStarted, Crash, Goto, RequestInv
<1>7. CASE UNCHANGED vars
  BY <1>7 DEF vars, RequestInv
<1> QED
  BY <1>1, <1>3, <1>4, <1>5, <1>6, <1>7 DEF Next, Task

LEMMA ListedStep ==
  ASSUME TypeOK, BegunInv, ListedInv, [Next]_vars
  PROVE  ListedInv'
<1>a. /\ pc \in [Tasks -> Phases]
      /\ listed \in [AlertTasks -> SUBSET Rules] /\ rules \subseteq Rules
  BY DEF TypeOK
<1>b. "opened" \in Tasks /\ "resolved" \in Tasks /\ AlertTasks \subseteq Tasks
  BY TaskFacts
<1>1. CASE Open \/ Resolve
  BY <1>1, <1>a, <1>b DEF Open, Resolve, Goto, BegunInv, ListedInv
<1>3. CASE Api
  BY <1>3, <1>a, <1>b DEF Api, CreateRule, DeleteRule, Request, DeleteService, Goto, ListedInv
<1>4. ASSUME NEW t \in Tasks, Summarise(t) PROVE ListedInv'
  BY <1>4, <1>a, <1>b DEF Summarise, LoadPrompt, Answered, AskFailed, AnswerMalformed, LoadRow,
     Store, AfterSummary, Goto, ListedInv
<1>5. ASSUME NEW t \in AlertTasks, Alert(t) PROVE ListedInv'
  BY <1>5, <1>a, <1>b DEF Alert, LoadRules, Dispatch, Mark, Goto, ListedInv
<1>6. CASE Fault
  BY <1>6, <1>a, <1>b DEF Fault, DatabaseError, CommitLost, TaskNeverStarted, Crash, Goto, ListedInv
<1>7. CASE UNCHANGED vars
  BY <1>7 DEF vars, ListedInv
<1> QED
  BY <1>1, <1>3, <1>4, <1>5, <1>6, <1>7 DEF Next, Task

-----------------------------------------------------------------------------
\* Row, views and chunks

\* Only a stored summary, alert_sent and the deletion touch the row.
LEMMA RowUntouched ==
  ASSUME Open \/ Resolve \/ (\E q \in Requests : Request(q))
         \/ (\E r \in Rules : CreateRule(r) \/ DeleteRule(r)) \/ TaskNeverStarted
  PROVE  UNCHANGED <<row, chunks, answer, view, listed, tried, summaries>>
BY DEF Open, Resolve, Request, CreateRule, DeleteRule, TaskNeverStarted, database

LEMMA SummaryKept ==
  ASSUME TypeOK, AnswerInv, ViewInv, [Next]_vars, life' # "deleted", row.text # None
  PROVE  row'.text # None
<1>1. CASE Open \/ Resolve
  BY <1>1, RowUntouched
<1>2. CASE Api
  BY <1>2, RowUntouched DEF Api, DeleteService
<1>3. ASSUME NEW t \in Tasks, Summarise(t) PROVE row'.text # None
  <2>1. CASE Store(t)
    BY <2>1, SummaryWritten DEF Store, AnswerInv
  <2> QED
    BY <1>3, <2>1 DEF Summarise, LoadPrompt, Answered, AskFailed, AnswerMalformed, LoadRow, database
<1>4. ASSUME NEW t \in AlertTasks, Alert(t) PROVE row'.text # None
  BY <1>4, TaskFacts, SentWritten DEF Alert, LoadRules, Dispatch, Mark, database
<1>5. CASE Fault
  <2>1. ASSUME NEW t \in Tasks, CommitLost(t) PROVE row'.text # None
    BY <2>1, SummaryWritten, SentWritten DEF CommitLost, AnswerInv
  <2> QED
    BY <1>5, <2>1, RowUntouched DEF Fault, DatabaseError, Crash, database
<1>6. CASE UNCHANGED vars
  BY <1>6 DEF vars, database
<1> QED
  BY <1>1, <1>2, <1>3, <1>4, <1>5, <1>6 DEF Next, Task

\* A deleted incident stays deleted.
LEMMA DeletedStays ==
  ASSUME TypeOK, [Next]_vars, life = "deleted"
  PROVE  life' = "deleted"
<1>1. CASE Api
  BY <1>1 DEF Api, CreateRule, DeleteRule, Request, DeleteService, database
<1>2. ASSUME NEW t \in Tasks, Summarise(t) PROVE life' = "deleted"
  BY <1>2 DEF Summarise, LoadPrompt, Answered, AskFailed, AnswerMalformed, LoadRow, Store, database
<1>3. ASSUME NEW t \in AlertTasks, Alert(t) PROVE life' = "deleted"
  BY <1>3 DEF Alert, LoadRules, Dispatch, Mark, database
<1>4. CASE Fault
  BY <1>4 DEF Fault, DatabaseError, CommitLost, TaskNeverStarted, Crash, database
<1> QED
  BY <1>1, <1>2, <1>3, <1>4 DEF Next, Task, Open, Resolve, vars, database

\* A view is the row as it is, an empty one, or as it was.
LEMMA ViewChange ==
  ASSUME TypeOK, [Next]_vars, NEW t \in Tasks
  PROVE  view'[t] \in {view[t], row, NewRow}
<1>a. view \in [Tasks -> Row] /\ AlertTasks \subseteq Tasks
  BY TaskFacts DEF TypeOK
<1>1. CASE Open \/ Resolve \/ TaskNeverStarted
  BY <1>1, RowUntouched
<1>2. CASE Api
  BY <1>2, RowUntouched DEF Api, DeleteService
<1>3. ASSUME NEW u \in Tasks, Summarise(u) PROVE view'[t] \in {view[t], row, NewRow}
  BY <1>3, <1>a DEF Summarise, LoadPrompt, Answered, AskFailed, AnswerMalformed, LoadRow, Store, Close
<1>4. ASSUME NEW u \in AlertTasks, Alert(u) PROVE view'[t] \in {view[t], row, NewRow}
  BY <1>4, <1>a DEF Alert, LoadRules, Dispatch, Mark, Close
<1>5. CASE Fault
  BY <1>1, <1>5, <1>a DEF Fault, DatabaseError, CommitLost, Crash, Close
<1> QED
  BY <1>1, <1>2, <1>3, <1>4, <1>5 DEF Next, Task, vars

LEMMA ViewStep ==
  ASSUME TypeOK, AnswerInv, ViewInv, [Next]_vars
  PROVE  ViewInv'
<1> SUFFICES ASSUME life' # "deleted", NEW t \in Tasks, view'[t].text # None
             PROVE  row'.text # None
  BY DEF ViewInv
<1>1. life # "deleted"
  BY DeletedStays
<1>2. row.text # None
  BY <1>1, ViewChange, NewRowFacts DEF ViewInv
<1> QED
  BY <1>2, SummaryKept

LEMMA ChunkStep ==
  ASSUME TypeOK, AnswerInv, ViewInv, ChunkInv, [Next]_vars
  PROVE  ChunkInv'
<1> SUFFICES ASSUME life' # "deleted" PROVE (chunks' > 0 <=> row'.text # None) /\ summaries' <= chunks'
  BY DEF ChunkInv
<1>a. /\ life # "deleted" /\ chunks \in Nat /\ summaries \in Nat
      /\ (chunks > 0 <=> row.text # None) /\ summaries <= chunks
  BY DeletedStays DEF ChunkInv, TypeOK
<1>b. SUFFICES ASSUME ~(chunks' = chunks /\ row'.text = row.text /\ summaries' \in {0, summaries})
               PROVE  chunks' = chunks + 1 /\ row'.text # None /\ summaries' \in {summaries, summaries + 1}
  BY <1>a
<1>1. ~(Open \/ Resolve \/ Api \/ TaskNeverStarted \/ UNCHANGED vars)
  BY <1>b, RowUntouched DEF Api, DeleteService, vars, database
<1>2. ASSUME NEW t \in Tasks, Summarise(t)
      PROVE  chunks' = chunks + 1 /\ row'.text # None /\ summaries' \in {summaries, summaries + 1}
  <2>1. Store(t) /\ Present
    BY <1>2, <1>b DEF Summarise, LoadPrompt, Answered, AskFailed, AnswerMalformed, LoadRow, Store, database
  <2> QED
    BY <2>1, <1>a, SummaryWritten DEF Store, AnswerInv, ViewInv
<1>3. ASSUME NEW t \in AlertTasks PROVE ~Alert(t)
  BY <1>b, TaskFacts, SentWritten DEF Alert, LoadRules, Dispatch, Mark, database
<1>4. CASE Fault
  <2>1. PICK t \in Tasks : CommitLost(t)
    BY <1>4, <1>1, <1>b DEF Fault, DatabaseError, Crash, database
  <2>2. WriteSummary(t) /\ pc[t] = "storing" /\ UNCHANGED summaries
    BY <2>1, <1>b, SentWritten DEF CommitLost
  <2> QED
    BY <2>1, <2>2, <1>a, SummaryWritten DEF AnswerInv, ViewInv
<1> QED
  BY <1>1, <1>2, <1>3, <1>4 DEF Next, Task

-----------------------------------------------------------------------------
\* The theorems

LEMMA InvInit == Init => Inv
<1> SUFFICES ASSUME Init PROVE Inv
  OBVIOUS
<1>1. TypeOK
  BY TypesInit
<1>2. BegunInv /\ AnswerInv /\ RequestInv /\ ListedInv
  BY TaskFacts DEF Init, BegunInv, AnswerInv, RequestInv, ListedInv, Tasks, AlertTasks
<1>3. ViewInv /\ ChunkInv
  BY NewRowFacts DEF Init, ViewInv, ChunkInv
<1> QED
  BY <1>1, <1>2, <1>3 DEF Inv

LEMMA InvStep == Inv /\ [Next]_vars => Inv'
BY TypesStep, BegunStep, AnswerStep, RequestStep, ListedStep, ViewStep, ChunkStep DEF Inv

\* In every state tasks, sessions and rows are where the code can have brought
\* them: what the theorems below rest on.
THEOREM PostIncidentInvariant == Spec => []Inv
BY InvInit, InvStep, PTL DEF Spec

\* Every variable keeps its type, for all requests, rules, answers and faults.
THEOREM PostIncidentTypes == Spec => []TypeOK
<1>1. Inv => TypeOK
  BY DEF Inv
<1> QED
  BY <1>1, PostIncidentInvariant, PTL

\* A summary and its context chunk are there together or not at all, and the
\* counter of the process never runs ahead of the stored chunks.
THEOREM ContextFollows == Spec => []ContextFollowsSummary
<1>1. Inv => ContextFollowsSummary
  BY DEF Inv, ChunkInv, ContextFollowsSummary, Present
<1> QED
  BY <1>1, PostIncidentInvariant, PTL

\* No step but the deletion of the incident takes a stored summary away.
THEOREM SummariesStay == Spec => SummaryIsKept
<1>1. Inv /\ [Next]_vars => [life' # "deleted" /\ row.text # None => row'.text # None]_vars
  BY SummaryKept DEF Inv
<1> QED
  BY <1>1, PostIncidentInvariant, PTL DEF Spec, SummaryIsKept

-----------------------------------------------------------------------------
\* Pairs

LEMMA PairStep ==
  ASSUME TypeOK, AnswerInv, PairInv, [Next]_vars
  PROVE  PairInv'
<1> SUFFICES ASSUME DistinctTexts PROVE Pair(row)' /\ \A t \in Tasks : Pair(view[t])'
  BY DEF PairInv, DistinctTexts
<1>a. Pair(row) /\ \A t \in Tasks : Pair(view[t])
  BY DEF PairInv
<1>1. \A t \in Tasks : Pair(view'[t])
  BY <1>a, ViewChange, NewRowFacts
<1>2. ASSUME NEW t \in Tasks, WriteSummary(t), pc[t] = "storing" PROVE Pair(row')
  BY <1>2, <1>a, PairWritten DEF AnswerInv
<1>3. ASSUME NEW t \in Tasks, WriteSent(t) PROVE Pair(row')
  BY <1>3, <1>a, SentWritten DEF Pair
<1>4. ASSUME row' = row PROVE Pair(row')
  BY <1>4, <1>a
<1>5. Pair(row')
  <2>1. CASE Open \/ Resolve \/ Api
    BY <2>1, <1>4, RowUntouched, NewRowFacts DEF Api, DeleteService
  <2>2. ASSUME NEW t \in Tasks, Summarise(t) PROVE Pair(row')
    BY <2>2, <1>2, <1>4 DEF Summarise, LoadPrompt, Answered, AskFailed, AnswerMalformed, LoadRow,
       Store, database
  <2>3. ASSUME NEW t \in AlertTasks, Alert(t) PROVE Pair(row')
    BY <2>3, <1>3, <1>4, TaskFacts DEF Alert, LoadRules, Dispatch, Mark, database
  <2>4. CASE Fault
    BY <2>4, <1>2, <1>3, <1>4, RowUntouched DEF Fault, DatabaseError, CommitLost, Crash, database
  <2>5. CASE UNCHANGED vars
    BY <2>5, <1>4 DEF vars, database
  <2> QED
    BY <2>1, <2>2, <2>3, <2>4, <2>5 DEF Next, Task
<1> QED
  BY <1>1, <1>5 DEF Pair

\* When no two answers read alike, the text of an incident is that of its
\* structured summary, however many sessions of however many requests overlap.
THEOREM TextsMatch == Spec => []TextOfStructured
<1>1. Init => PairInv
  BY NewRowFacts DEF Init, PairInv
<1>2. Inv /\ PairInv /\ [Next]_vars => PairInv'
  BY PairStep DEF Inv
<1>3. PairInv => TextOfStructured
  BY DEF PairInv, Pair, TextOfStructured
<1> QED
  BY <1>1, <1>2, <1>3, PostIncidentInvariant, PTL DEF Spec

-----------------------------------------------------------------------------
\* Alerts

\* An alert task that has tried all it should, and can thus stand for alert_sent.
Through(t) == listed[t] # {} /\ Todo(t) = {}

LEMMA ThroughStays ==
  ASSUME TypeOK, ListedInv, [Next]_vars, NEW t \in AlertTasks, Through(t)
  PROVE  Through(t)'
<1>a. /\ listed \in [AlertTasks -> SUBSET Rules] /\ tried \in [AlertTasks -> SUBSET Rules]
      /\ pc[t] # "alert"
  BY DEF TypeOK, ListedInv, Through
<1>1. SUFFICES listed'[t] = listed[t] /\ tried[t] \subseteq tried'[t]
  BY DEF Through, Todo, Wanted
<1>2. CASE Open \/ Resolve \/ TaskNeverStarted
  BY <1>2, RowUntouched
<1>3. CASE Api
  BY <1>3, RowUntouched DEF Api, DeleteService
<1>4. ASSUME NEW u \in Tasks, Summarise(u) PROVE UNCHANGED <<listed, tried>>
  BY <1>4 DEF Summarise, LoadPrompt, Answered, AskFailed, AnswerMalformed, LoadRow, Store
<1>5. ASSUME NEW u \in AlertTasks, Alert(u) PROVE listed'[t] = listed[t] /\ tried[t] \subseteq tried'[t]
  BY <1>5, <1>a DEF Alert, LoadRules, Dispatch, Mark
<1>6. CASE Fault
  BY <1>2, <1>6 DEF Fault, DatabaseError, CommitLost, Crash
<1> QED
  BY <1>2, <1>3, <1>4, <1>5, <1>6 DEF Next, Task, vars

LEMMA SentStep ==
  ASSUME TypeOK, AnswerInv, RequestInv, ListedInv, SentMeansTried, [Next]_vars
  PROVE  SentMeansTried'
<1> SUFFICES ASSUME row'.sent PROVE \E t \in AlertTasks : Through(t)'
  BY DEF SentMeansTried, Through
<1>a. SUFFICES row.sent \/ \E t \in AlertTasks : Through(t)
  BY ThroughStays DEF SentMeansTried, Through
<1>b. SUFFICES ASSUME ~row.sent PROVE \E t \in AlertTasks : Through(t)
  OBVIOUS
<1>1. ~(Open \/ Resolve \/ Api \/ TaskNeverStarted \/ UNCHANGED vars)
  BY <1>b, RowUntouched, NewRowFacts DEF Api, DeleteService, vars, database
<1>2. ASSUME NEW t \in Tasks PROVE ~Summarise(t)
  BY <1>b, SummaryWritten DEF Summarise, LoadPrompt, Answered, AskFailed, AnswerMalformed, LoadRow,
     Store, AnswerInv, database
<1>3. ASSUME NEW t \in AlertTasks, Alert(t) PROVE Through(t)
  BY <1>3, <1>b DEF Alert, LoadRules, Dispatch, Mark, ListedInv, Through, database
<1>4. CASE Fault
  <2>1. PICK t \in Tasks : CommitLost(t)
    BY <1>4, <1>1, <1>b DEF Fault, DatabaseError, Crash, database
  <2>2. pc[t] = "sending" /\ Todo(t) = {}
    BY <2>1, <1>b, SummaryWritten DEF CommitLost, AnswerInv
  <2>3. t \in AlertTasks
    BY <2>2, TaskFacts DEF RequestInv
  <2> QED
    BY <2>2, <2>3 DEF ListedInv, Through
<1> QED
  BY <1>1, <1>2, <1>3, <1>4 DEF Next, Task

\* alert_sent is set only behind a task that found rules and tried every one
\* that wanted its event, whatever fails, crashes or is deleted.
THEOREM SentIsTried == Spec => []SentMeansTried
<1>1. Init => SentMeansTried
  BY NewRowFacts DEF Init, SentMeansTried
<1>2. Inv /\ SentMeansTried /\ [Next]_vars => SentMeansTried'
  BY SentStep DEF Inv
<1> QED
  BY <1>1, <1>2, PostIncidentInvariant, PTL DEF Spec

LEMMA CarryStep ==
  ASSUME TypeOK, BegunInv, AnswerInv, ViewInv, CarryInv, [Next]_vars
  PROVE  CarryInv'
<1>a. /\ pc \in [Tasks -> Phases] /\ view \in [Tasks -> Row] /\ answer \in [Tasks -> Answers \union {None, Malformed}]
      /\ "opened" \in Tasks /\ AlertTasks \subseteq Tasks /\ None \notin Answers /\ Malformed \notin Answers
  BY TaskFacts, NoneAssumption DEF TypeOK
<1>b. life' # "deleted" => life # "deleted" /\ (row.text # None => row'.text # None)
  BY DeletedStays, SummaryKept
<1>1. ASSUME pc'["opened"] = pc["opened"] \/ pc'["opened"] \notin {"alert", "sending"},
             answer'["opened"] = answer["opened"],
             view'["opened"] = view["opened"] \/ pc'["opened"] \notin {"alert", "sending"}
      PROVE  CarryInv'
  BY <1>1, <1>b DEF CarryInv, OpenedAlertCarriesSummary
<1>2. CASE Open \/ Resolve \/ TaskNeverStarted
  BY <1>1, <1>2, <1>a DEF Open, Resolve, TaskNeverStarted, Goto
<1>3. CASE Api
  BY <1>1, <1>3, <1>a, RequestsAssumption DEF Api, CreateRule, DeleteRule, Request, DeleteService,
     Goto, AlertTasks
<1>4. ASSUME NEW t \in Tasks, t # "opened", Summarise(t) PROVE CarryInv'
  BY <1>1, <1>4, <1>a DEF Summarise, LoadPrompt, Answered, AskFailed, AnswerMalformed, LoadRow, Store,
     Goto, Close
<1>5. CASE Summarise("opened")
  <2>1. CASE LoadPrompt("opened") \/ AskFailed("opened")
    BY <2>1, <1>a DEF LoadPrompt, AskFailed, Goto, AfterSummary, AnswerInv, CarryInv,
       OpenedAlertCarriesSummary
  <2>2. CASE Answered("opened") \/ AnswerMalformed("opened")
    BY <2>2, <1>a DEF Answered, AnswerMalformed, Goto, CarryInv, OpenedAlertCarriesSummary
  <2>3. CASE LoadRow("opened")
    BY <2>3, <1>a DEF LoadRow, Goto, AfterSummary, Present, BegunInv, CarryInv,
       OpenedAlertCarriesSummary, TypeOK, database
  <2>4. CASE Store("opened")
    <3>1. CASE Present
      <4>1. row'.text # None
        BY <1>a, <2>4, <3>1, SummaryWritten DEF Store, AnswerInv, ViewInv, Present
      <4> QED
        BY <2>4, <3>1, <4>1, <1>a DEF Store, Goto, AfterSummary, CarryInv, OpenedAlertCarriesSummary
    <3>2. CASE ~Present
      BY <2>4, <3>2, <1>a DEF Store, Goto, CarryInv, OpenedAlertCarriesSummary
    <3> QED
      BY <3>1, <3>2
  <2> QED
    BY <1>5, <2>1, <2>2, <2>3, <2>4 DEF Summarise
<1>6. ASSUME NEW t \in AlertTasks, t # "opened", Alert(t) PROVE CarryInv'
  BY <1>1, <1>6, <1>a DEF Alert, LoadRules, Dispatch, Mark, Goto, Close
<1>7. CASE Alert("opened")
  BY <1>7, <1>1, <1>a DEF Alert, LoadRules, Dispatch, Mark, Goto, Close, Present, CarryInv,
     OpenedAlertCarriesSummary
<1>8. CASE Fault
  BY <1>1, <1>2, <1>8, <1>a DEF Fault, DatabaseError, CommitLost, Crash, Goto, Close
<1>9. CASE UNCHANGED vars
  BY <1>1, <1>9 DEF vars
<1> QED
  BY <1>2, <1>3, <1>4, <1>5, <1>6, <1>7, <1>8, <1>9 DEF Next, Task, AlertTasks

\* The alert of an incident whose summary its task has got carries a summary,
\* whatever requests, alerts and faults come between.
THEOREM AlertsCarrySummaries == Spec => []OpenedAlertCarriesSummary
<1>1. Init => CarryInv
  BY TaskFacts DEF Init, CarryInv, OpenedAlertCarriesSummary
<1>2. Inv /\ CarryInv /\ [Next]_vars => CarryInv'
  BY CarryStep DEF Inv
<1>3. CarryInv => OpenedAlertCarriesSummary
  BY DEF CarryInv
<1> QED
  BY <1>1, <1>2, <1>3, PostIncidentInvariant, PTL DEF Spec

-----------------------------------------------------------------------------
\* No task is lost unless something fails

\* What may end a task early: an error of the database or the end of the
\* process, an answer of the wrong shape, the deletion of the incident.
Excuse(t) == faults > 0 \/ answer[t] = Malformed \/ life = "deleted"

\* A task ends early for one of these causes only, and an alert task that came
\* to its end has tried every rule it loaded that wanted its event. A call of
\* the model that fails is no cause: it costs no alert (ai_summary.py:177-183).
AlertsRunThrough ==
  /\ \A t \in Tasks : pc[t] = "dead" => Excuse(t)
  /\ \A t \in AlertTasks : pc[t] = "done" => Todo(t) = {}

LEMMA FaultsCount ==
  ASSUME TypeOK, Fault
  PROVE  faults' > 0
BY DEF TypeOK, Fault, DatabaseError, CommitLost, TaskNeverStarted, Crash

\* A task that has run and does not find its incident lost it to a deletion.
LEMMA AbsentIsDeleted ==
  ASSUME TypeOK, BegunInv, NEW t \in Tasks, pc[t] # "idle", ~Present
  PROVE  life = "deleted"
BY DEF TypeOK, BegunInv, Present

LEMMA ExcuseStays ==
  ASSUME TypeOK, AnswerInv, [Next]_vars, NEW t \in Tasks, Excuse(t)
  PROVE  Excuse(t)'
<1>1. CASE Fault
  BY <1>1, FaultsCount DEF Excuse
<1>2. ASSUME NEW u \in Tasks, Answered(u) \/ AnswerMalformed(u) PROVE Excuse(t)'
  <2>1. answer[u] = None /\ answer \in [Tasks -> Answers \union {None, Malformed}]
    BY <1>2 DEF Answered, AnswerMalformed, AnswerInv, TypeOK
  <2>2. answer[t] = Malformed => answer'[t] = Malformed
    BY <1>2, <2>1, NoneAssumption DEF Answered, AnswerMalformed
  <2>3. UNCHANGED <<faults, life>>
    BY <1>2 DEF Answered, AnswerMalformed, database
  <2> QED
    BY <2>2, <2>3 DEF Excuse
<1>3. CASE UNCHANGED <<faults, answer>>
  BY <1>3, DeletedStays DEF Excuse
<1> QED
  BY <1>1, <1>2, <1>3 DEF Next, Task, Open, Resolve, Api, CreateRule, DeleteRule, Request,
     DeleteService, Summarise, LoadPrompt, AskFailed, LoadRow, Store,
     Alert, LoadRules, Dispatch, Mark, vars

\* Only a step of its own, or a fault, ends a task.
LEMMA DeathHasCause ==
  ASSUME TypeOK, BegunInv, [Next]_vars, NEW t \in Tasks, pc[t] # "dead", pc'[t] = "dead"
  PROVE  Excuse(t)'
<1>a. /\ pc \in [Tasks -> Phases] /\ "opened" \in Tasks /\ "resolved" \in Tasks
      /\ answer \in [Tasks -> Answers \union {None, Malformed}]
  BY TaskFacts DEF TypeOK
<1>1. CASE Fault
  BY <1>1, FaultsCount DEF Excuse
<1>2. CASE Open \/ Resolve \/ Api \/ UNCHANGED vars
  BY <1>2, <1>a DEF Open, Resolve, Api, CreateRule, DeleteRule, Request, DeleteService, Goto, vars
<1>3. ASSUME NEW u \in Tasks, Summarise(u) PROVE Excuse(t)'
  <2>1. CASE LoadPrompt(u) \/ Answered(u) \/ AskFailed(u) \/ LoadRow(u)
    BY <2>1, <1>a DEF LoadPrompt, Answered, AskFailed, LoadRow, Goto, AfterSummary
  <2>2. CASE AnswerMalformed(u)
    BY <2>2, <1>a DEF AnswerMalformed, Goto, Excuse
  <2>3. CASE Store(u)
    BY <2>3, <1>a, AbsentIsDeleted DEF Store, Goto, AfterSummary, Excuse
  <2> QED
    BY <1>3, <2>1, <2>2, <2>3 DEF Summarise
<1>4. ASSUME NEW u \in AlertTasks, Alert(u) PROVE Excuse(t)'
  <2>1. u \in Tasks
    BY TaskFacts
  <2> QED
    BY <1>4, <2>1, <1>a, AbsentIsDeleted DEF Alert, LoadRules, Dispatch, Mark, Goto, Excuse
<1> QED
  BY <1>1, <1>2, <1>3, <1>4 DEF Next, Task

LEMMA EndsTold ==
  ASSUME TypeOK, BegunInv, AnswerInv, ListedInv, AlertsRunThrough, [Next]_vars,
         NEW t \in AlertTasks, pc'[t] = "done"
  PROVE  Todo(t)' = {}
<1>a. /\ pc \in [Tasks -> Phases] /\ "opened" \in Tasks /\ "resolved" \in Tasks /\ t \in Tasks
      /\ listed \in [AlertTasks -> SUBSET Rules] /\ tried \in [AlertTasks -> SUBSET Rules]
  BY TaskFacts DEF TypeOK
<1>b. pc[t] \notin {"sending", "done"} => listed[t] = {} \/ pc[t] = "dead"
  BY <1>a DEF ListedInv, Phases
<1>c. ASSUME UNCHANGED <<listed, tried>>,
             pc[t] = "done" \/ listed[t] = {} \/ Todo(t) = {}
      PROVE  Todo(t)' = {}
  BY <1>c DEF Todo, Wanted, AlertsRunThrough
<1>1. CASE Open \/ Resolve \/ TaskNeverStarted
  BY <1>1, <1>a, <1>c, RowUntouched DEF Open, Resolve, TaskNeverStarted, Goto
<1>2. CASE Api
  BY <1>2, <1>a, <1>c DEF Api, CreateRule, DeleteRule, Request, DeleteService, Goto
<1>3. ASSUME NEW u \in Tasks, Summarise(u) PROVE Todo(t)' = {}
  <2>1. UNCHANGED <<listed, tried>>
    BY <1>3 DEF Summarise, LoadPrompt, Answered, AskFailed, AnswerMalformed, LoadRow, Store
  <2>2. pc[t] = "done" \/ pc[t] \in {"summary", "asking", "saving", "storing"}
    BY <1>3, <1>a DEF Summarise, LoadPrompt, Answered, AskFailed, AnswerMalformed, LoadRow, Store,
       Goto
  <2> QED
    BY <2>1, <2>2, <1>b, <1>c
<1>4. ASSUME NEW u \in AlertTasks, u # t, Alert(u) PROVE Todo(t)' = {}
  <2>1. UNCHANGED <<listed[t], tried[t], pc[t]>>
    BY <1>4, <1>a DEF Alert, LoadRules, Dispatch, Mark, Goto
  <2> QED
    BY <2>1 DEF Todo, Wanted, AlertsRunThrough
<1>5. CASE Alert(t)
  <2>1. CASE LoadRules(t)
    BY <2>1, <1>a, <1>b, <1>c DEF LoadRules, Goto
  <2>2. CASE Dispatch(t)
    BY <2>2 DEF Dispatch
  <2>3. CASE Mark(t)
    BY <2>3, <1>c DEF Mark
  <2> QED
    BY <1>5, <2>1, <2>2, <2>3 DEF Alert
<1>6. CASE Fault
  <2>1. CASE TaskNeverStarted
    BY <2>1, <1>1
  <2>2. UNCHANGED <<listed, tried>> /\ pc[t] = "done"
    BY <1>6, <2>1, <1>a DEF Fault, DatabaseError, CommitLost, TaskNeverStarted, Crash, Goto
  <2> QED
    BY <2>2, <1>c
<1>7. CASE UNCHANGED vars
  BY <1>7, <1>c DEF vars
<1> QED
  BY <1>1, <1>2, <1>3, <1>4, <1>5, <1>6, <1>7 DEF Next, Task

\* The safety half of WantedRulesAreTold: a task that waits for nothing more
\* has either dispatched all it should, or ended for a cause.
THEOREM AlertsAreKept == Spec => []AlertsRunThrough
<1>1. Init => AlertsRunThrough
  BY TaskFacts DEF Init, AlertsRunThrough
<1>2. Inv /\ AlertsRunThrough /\ [Next]_vars => AlertsRunThrough'
  BY ExcuseStays, DeathHasCause, EndsTold DEF Inv, AlertsRunThrough
<1> QED
  BY <1>1, <1>2, PostIncidentInvariant, PTL DEF Spec

=============================================================================
