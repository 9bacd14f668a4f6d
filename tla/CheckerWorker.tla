---------------------------- MODULE CheckerWorker -----------------------------
(***************************************************************************)
(* The checker worker, checker/app/worker.py: every checker node is one     *)
(* process that reads check tasks from the tasks stream, all nodes through  *)
(* one consumer group, and starts a coroutine for each.  At most            *)
(* CONCURRENCY of those coroutines hold the semaphore; each probes the      *)
(* service, reports the result to the results stream and acknowledges the   *)
(* task.  A signal stops the loop and lets the running coroutines finish;   *)
(* a node that starts claims the entries that were pending for a minute.    *)
(***************************************************************************)
EXTENDS Streams, FiniteSets

CONSTANTS
  Nodes,         \* checker nodes, each with its own NODE_ID
  Checks,        \* well-formed check tasks
  Junk,          \* a task that _parse_task rejects
  Concurrency,   \* CONCURRENCY
  TasksMaxLen,   \* MAXLEN of the tasks stream
  MaxTasks,      \* bound on the tasks the scheduler publishes
  MaxStops,      \* bound on the signals that stop a node
  MaxFaults      \* bound on the failures of Redis and of nodes

ASSUME CheckerAssumption ==
  /\ Junk \notin Checks
  /\ Concurrency \in Nat \ {0}
  /\ TasksMaxLen \in Nat \ {0}

ASSUME BoundsAssumption == MaxTasks \in Nat /\ MaxStops \in Nat /\ MaxFaults \in Nat

VARIABLES
  tasks,      \* the tasks stream and its group
  loop,       \* per node, where its main loop is
  shutdown,   \* per node, the _shutdown event
  task,       \* per node and entry, the coroutine that handles it
  reports,    \* results added to the results stream, as [entry, node]
  stops,
  faults

vars == <<tasks, loop, shutdown, task, reports, stops, faults>>

-----------------------------------------------------------------------------

Entries == 1..MaxTasks

Payload == Checks \cup {Junk}

\* Mutant: acquire() without release().
SlotsLeaked(n) == {i \in Entries : task[n][i] \in {"probe", "report", "ack", "done"}}

\* Coroutines inside `async with _semaphore`.
Slots(n) == {i \in Entries : task[n][i] \in {"probe", "report", "ack"}}

\* Coroutines that were created and have not ended: the set `tasks` of run().
InFlight(n) == {i \in Entries : task[n][i] = "queued"} \cup Slots(n)

Move(n, i, phase) == task' = [task EXCEPT ![n][i] = phase]

\* Coroutines for the entries of a reply.
Spawn(n, ids) ==
  task' = [task EXCEPT ![n] = [i \in Entries |-> IF i \in ids THEN "queued" ELSE task[n][i]]]

Faulty ==
  /\ faults < MaxFaults
  /\ faults' = faults + 1

-----------------------------------------------------------------------------
\* The main loop, run()

\* `while not _shutdown.is_set()`
LoopTop(n) ==
  /\ loop[n] = "top"
  /\ loop' = [loop EXCEPT ![n] = IF shutdown[n] THEN "drain" ELSE "reading"]
  /\ UNCHANGED <<tasks, shutdown, task, reports, stops, faults>>

\* Mutant: the reply is taken for the whole stream.
ReadAllTasks(n) ==
  /\ loop[n] = "reading"
  /\ NewIds(tasks, Concurrency) # {}
  /\ tasks' = XReadGroup(tasks, n, Concurrency)
  /\ Spawn(n, NewFrom(tasks)..Len(tasks.log))
  /\ loop' = [loop EXCEPT ![n] = "top"]
  /\ UNCHANGED <<shutdown, reports, stops, faults>>

\* xreadgroup returns entries.  It may do so after the signal: the event is
\* looked at only at the top of the loop.
ReadTasks(n) ==
  /\ loop[n] = "reading"
  /\ NewIds(tasks, Concurrency) # {}
  /\ tasks' = XReadGroup(tasks, n, Concurrency)
  /\ Spawn(n, NewIds(tasks, Concurrency))
  /\ loop' = [loop EXCEPT ![n] = "top"]
  /\ UNCHANGED <<shutdown, reports, stops, faults>>

\* xreadgroup blocked for BLOCK_MS and returns nothing.
ReadNothing(n) ==
  /\ loop[n] = "reading"
  /\ NewIds(tasks, Concurrency) = {}
  /\ loop' = [loop EXCEPT ![n] = "top"]
  /\ UNCHANGED <<tasks, shutdown, task, reports, stops, faults>>

\* xreadgroup raises; the entries may have been delivered all the same.
ReadFailed(n) ==
  /\ Faulty
  /\ loop[n] = "reading"
  /\ tasks' \in {tasks, XReadGroup(tasks, n, Concurrency)}
  /\ loop' = [loop EXCEPT ![n] = "top"]
  /\ UNCHANGED <<shutdown, task, reports, stops>>

\* Mutant: run() returns without gather(*tasks).
DrainedAtOnce(n) ==
  /\ loop[n] = "drain"
  /\ loop' = [loop EXCEPT ![n] = "stopped"]
  /\ UNCHANGED <<tasks, shutdown, task, reports, stops, faults>>

\* gather(*tasks) has seen every coroutine end.
Drained(n) ==
  /\ loop[n] = "drain"
  /\ InFlight(n) = {}
  /\ loop' = [loop EXCEPT ![n] = "stopped"]
  /\ UNCHANGED <<tasks, shutdown, task, reports, stops, faults>>

-----------------------------------------------------------------------------
\* One coroutine, _handle_task

SlotFree(n) == Cardinality(Slots(n)) < Concurrency

\* The semaphore is acquired and the task parsed; one that does not parse is
\* acknowledged without a probe.
Begin(n, i) ==
  /\ task[n][i] = "queued"
  /\ SlotFree(n)
  /\ Move(n, i, IF tasks.log[i] = Junk THEN "ack" ELSE "probe")
  /\ UNCHANGED <<tasks, loop, shutdown, reports, stops, faults>>

\* probe() turns every outcome into a result.
Probe(n, i) ==
  /\ task[n][i] = "probe"
  /\ Move(n, i, "report")
  /\ UNCHANGED <<tasks, loop, shutdown, reports, stops, faults>>

Added(n, i) == Append(reports, [entry |-> i, node |-> n])

Report(n, i) ==
  /\ task[n][i] = "report"
  /\ reports' = Added(n, i)
  /\ Move(n, i, "ack")
  /\ UNCHANGED <<tasks, loop, shutdown, stops, faults>>

\* Mutant: the task is acknowledged in a `finally`.
ReportFailedAcked(n, i) ==
  /\ Faulty
  /\ task[n][i] = "report"
  /\ reports' \in {reports, Added(n, i)}
  /\ Move(n, i, "ack")
  /\ UNCHANGED <<tasks, loop, shutdown, stops>>

\* XADD raises, executed or not: the coroutine ends without acknowledging.
ReportFailed(n, i) ==
  /\ Faulty
  /\ task[n][i] = "report"
  /\ reports' \in {reports, Added(n, i)}
  /\ Move(n, i, "failed")
  /\ UNCHANGED <<tasks, loop, shutdown, stops>>

Ack(n, i) ==
  /\ task[n][i] = "ack"
  /\ tasks' = XAck(tasks, i)
  /\ Move(n, i, "done")
  /\ UNCHANGED <<loop, shutdown, reports, stops, faults>>

AckFailed(n, i) ==
  /\ Faulty
  /\ task[n][i] = "ack"
  /\ tasks' \in {tasks, XAck(tasks, i)}
  /\ Move(n, i, "failed")
  /\ UNCHANGED <<loop, shutdown, reports, stops>>

-----------------------------------------------------------------------------
\* Signals, crashes and restarts

\* SIGTERM or SIGINT: the handler sets the event, whatever the node is doing.
Signal(n) ==
  /\ stops < MaxStops
  /\ loop[n] \in {"top", "reading", "drain"}
  /\ ~shutdown[n]
  /\ stops' = stops + 1
  /\ shutdown' = [shutdown EXCEPT ![n] = TRUE]
  /\ UNCHANGED <<tasks, loop, task, reports, faults>>

\* The process dies with its coroutines.
Crash(n) ==
  /\ Faulty
  /\ loop[n] \in {"top", "reading", "drain"}
  /\ loop' = [loop EXCEPT ![n] = "down"]
  /\ task' = [task EXCEPT ![n] = [i \in Entries |-> IF i \in InFlight(n) THEN "lost" ELSE @[i]]]
  /\ UNCHANGED <<tasks, shutdown, reports, stops>>

\* run() from its first line.  _reclaim_pending claims the entries pending
\* for over 60 s, none if it fails; it counts them and does nothing else.
Start(n) ==
  /\ loop[n] \in {"down", "stopped"}
  /\ \E idle \in SUBSET Pending(tasks) : tasks' = XAutoClaim(tasks, n, idle)
  /\ loop' = [loop EXCEPT ![n] = "top"]
  /\ shutdown' = [shutdown EXCEPT ![n] = FALSE]
  /\ UNCHANGED <<task, reports, stops, faults>>

\* The scheduler of a coordinator publishes a task.
Publish(p) ==
  /\ Len(tasks.log) < MaxTasks
  /\ tasks' \in XAdd(tasks, p, TasksMaxLen)
  /\ UNCHANGED <<loop, shutdown, task, reports, stops, faults>>

-----------------------------------------------------------------------------

\* Every node has started once, with nothing pending to claim.
Init ==
  /\ tasks = EmptyStream
  /\ loop = [n \in Nodes |-> "top"]
  /\ shutdown = [n \in Nodes |-> FALSE]
  /\ task = [n \in Nodes |-> [i \in Entries |-> "none"]]
  /\ reports = <<>>
  /\ stops = 0
  /\ faults = 0

Loop(n) == LoopTop(n) \/ ReadTasks(n) \/ ReadNothing(n) \/ Drained(n)

Handle(n, i) == Begin(n, i) \/ Probe(n, i) \/ Report(n, i) \/ Ack(n, i)

Fault(n) ==
  \/ ReadFailed(n)
  \/ \E i \in Entries : ReportFailed(n, i) \/ AckFailed(n, i)
  \/ Crash(n)

Next ==
  \/ \E n \in Nodes : Loop(n) \/ Start(n) \/ Signal(n) \/ Fault(n)
  \/ \E n \in Nodes, i \in Entries : Handle(n, i)
  \/ \E p \in Payload : Publish(p)

Spec == Init /\ [][Next]_vars

\* The event loop runs the main loop and every coroutine that is ready, and
\* Docker restarts a node that ended (restart: unless-stopped).
Fairness ==
  \A n \in Nodes :
    /\ WF_vars(Loop(n))
    /\ WF_vars(Start(n))
    /\ \A i \in Entries : WF_vars(Handle(n, i))

FairSpec == Spec /\ Fairness

-----------------------------------------------------------------------------
\* Properties

Loops == {"top", "reading", "drain", "stopped", "down"}

\* none: not delivered to this node; done, failed, lost: the coroutine ended
\* with an acknowledgement, with an exception, with its process.
Phases == {"none", "queued", "probe", "report", "ack", "done", "failed", "lost"}

\* Every variable stays in its type, and only entries of the log are handled.
TypeOK ==
  /\ IsStream(tasks, Payload, Nodes)
  /\ loop \in [Nodes -> Loops]
  /\ shutdown \in [Nodes -> BOOLEAN]
  /\ task \in [Nodes -> [Entries -> Phases]]
  /\ \A n \in Nodes, i \in Entries : task[n][i] # "none" => i <= tasks.last
  /\ reports \in Seq([entry : Entries, node : Nodes])
  /\ stops \in 0..MaxStops
  /\ faults \in 0..MaxFaults

Reported(i) == \E k \in DOMAIN reports : reports[k].entry = i

\* One entry is handled by one coroutine of one node in the whole life of the
\* system, restarts and claims included.
OneHandlerPerEntry ==
  \A i \in Entries : \A n, m \in Nodes :
    task[n][i] # "none" /\ task[m][i] # "none" => n = m

\* Because nothing is handled twice, no entry is reported twice, even when an
\* XADD or XACK fails halfway, and also not when a node reports a task and
\* crashes before it acknowledges it, which README.md:94 describes otherwise:
\* the duplicates the idempotency key guards against come from two tasks of
\* one round, never from a redelivered task.
ReportedAtMostOnce ==
  \A j, k \in DOMAIN reports : reports[j].entry = reports[k].entry => j = k

\* A task leaves the pending list only when its result is in the results
\* stream, or it is junk, or a claim finds it trimmed from the stream.
AckMeansReported ==
  [][\A i \in Pending(tasks) \ Pending(tasks') :
       tasks.log[i] = Junk \/ Reported(i)' \/ i < tasks.first]_vars

Takers(i) == {n \in Nodes : task[n][i] # "none"}

Excused == {i \in Ids(tasks) : tasks.log[i] = Junk \/ i < tasks.first}

Ledger ==
  INSTANCE TaskLedger WITH
    Tasks <- Entries,
    takers <- [i \in Entries |-> Takers(i)],
    owed <- Pending(tasks),
    excused <- Excused

\* The nodes together keep the ledger of tasks: whatever reply, XADD or XACK
\* fails, whoever stops, dies, starts or claims, its taker alone reports a task,
\* once, and the task leaves the pending list only when its result is in the
\* results stream, or it is junk, or a claim finds it trimmed
\* (worker.py:76-129).  That it has one taker for good is what the code does,
\* not what its comments intend: see ClaimedTaskIsHandled.
ImplementsTasks == Ledger!LedgerSpec

\* A graceful stop leaves no work behind: no coroutine is cut off, and a task
\* delivered to the node at the very end, after the signal, is handled too.
CleanStop ==
  \A n \in Nodes : loop[n] = "stopped" =>
    \A i \in Entries : task[n][i] \in {"none", "done", "failed", "lost"}

\* Unless something fails, every published task is reported in the end, or is
\* junk and acknowledged, or is trimmed before any node reads it, although
\* nodes are stopped and restarted.
EveryTaskIsReported ==
  \A i \in Entries :
    i \in Ids(tasks) ~>
      \/ Reported(i)
      \/ i <= tasks.last /\ tasks.log[i] = Junk /\ i \notin Pending(tasks)
      \/ i < tasks.first /\ \A n \in Nodes : task[n][i] = "none"
      \/ faults > 0

\* A well-formed task that was lost with one node, is still in the stream and
\* was claimed by another.
LostAndClaimed(i) ==
  /\ i \in Pending(tasks)
  /\ i >= tasks.first
  /\ tasks.log[i] # Junk
  /\ \E n \in Nodes : task[n][i] = "lost" /\ tasks.pel[i] # n

\* "the un-ACKed message stays in the PEL (pending entry list) and another
\* consumer can claim it via XAUTOCLAIM" (worker.py:8), which "guarantees no
\* check result is lost even if a node crashes mid-task" (README.md:11): what
\* died with one node and was claimed by another is handled and acknowledged.
ClaimedTaskIsHandled ==
  \A i \in Entries : LostAndClaimed(i) ~> i \notin Pending(tasks)

=============================================================================
