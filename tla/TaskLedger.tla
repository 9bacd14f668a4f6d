------------------------------ MODULE TaskLedger ------------------------------
(***************************************************************************)
(* What the checker nodes promise of the tasks in the stream, whatever      *)
(* fails: a task has one taker for good, only its taker reports it, once,   *)
(* and it is settled only when it is reported or excused.  A task that is   *)
(* lost on the way stays owed (worker.py:87-113).                           *)
(***************************************************************************)
EXTENDS Sequences

CONSTANTS Tasks, Nodes

VARIABLES
  takers,     \* per task, the nodes that have ever taken it
  reports,    \* the results sent, as [entry, node]
  owed,       \* tasks that were handed out and are not settled
  excused     \* tasks that need no report

ledger == <<takers, reports, owed, excused>>

LedgerInit ==
  /\ takers = [i \in Tasks |-> {}]
  /\ reports = <<>>
  /\ owed = {}
  /\ excused = {}

Untaken(ids) == \A i \in ids : takers[i] = {}

Told(i) == \E k \in DOMAIN reports : reports[k].entry = i

\* A node takes tasks that nobody has taken.
Take(n, ids) ==
  /\ Untaken(ids)
  /\ takers' = [i \in Tasks |-> IF i \in ids THEN {n} ELSE takers[i]]
  /\ owed' = owed \cup ids
  /\ UNCHANGED <<reports, excused>>

\* Tasks are handed out and arrive nowhere.
Mislay(ids) ==
  /\ Untaken(ids)
  /\ owed' = owed \cup ids
  /\ UNCHANGED <<takers, reports, excused>>

\* The taker of a task reports it.
Tell(n, i) ==
  /\ takers[i] = {n}
  /\ ~Told(i)
  /\ reports' = Append(reports, [entry |-> i, node |-> n])
  /\ UNCHANGED <<takers, owed, excused>>

Settle(ids) ==
  /\ \A i \in ids : Told(i) \/ i \in excused
  /\ owed' = owed \ ids
  /\ UNCHANGED <<takers, reports, excused>>

\* A task that makes no sense is published, or old tasks are trimmed.
Excuse(ids) ==
  /\ excused' = excused \cup ids
  /\ UNCHANGED <<takers, reports, owed>>

LedgerNext ==
  \/ \E ids \in SUBSET Tasks :
       \/ \E n \in Nodes : Take(n, ids)
       \/ Mislay(ids) \/ Settle(ids) \/ Excuse(ids)
  \/ \E n \in Nodes, i \in Tasks : Tell(n, i)

LedgerSpec == LedgerInit /\ [][LedgerNext]_ledger

=============================================================================
