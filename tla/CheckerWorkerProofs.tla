------------------------- MODULE CheckerWorkerProofs --------------------------
(***************************************************************************)
(* Proofs about CheckerWorker, for every number of nodes, tasks, slots and  *)
(* failures: an entry has one handler for good, is reported at most once,   *)
(* is acknowledged only when reported, and a stopped node leaves no work;   *)
(* the workers implement the ledger of tasks; and while nothing fails, no   *)
(* task is lost between its reading and its report.                         *)
(***************************************************************************)
EXTENDS CheckerWorker, StreamLemmas

\* Coroutines live in a running process only.
NoOrphans ==
  \A n \in Nodes : loop[n] \in {"stopped", "down"} =>
    \A i \in Entries : task[n][i] \in {"none", "done", "failed", "lost"}

\* A result in the stream was put there by the handler of its entry.
ReportInv ==
  \A k \in DOMAIN reports :
    task[reports[k].node][reports[k].entry] \in {"ack", "done", "failed", "lost"}

\* A handler that is about to acknowledge has reported, or the task is junk.
AckInv ==
  \A n \in Nodes, i \in Entries :
    task[n][i] = "ack" => tasks.log[i] = Junk \/ Reported(i)

WInv ==
  /\ TypeOK
  /\ OneHandlerPerEntry
  /\ NoOrphans
  /\ ReportInv
  /\ ReportedAtMostOnce
  /\ AckInv

LogKept == \A i \in Ids(tasks) : tasks'.log[i] = tasks.log[i]

-----------------------------------------------------------------------------
\* What the steps have in common

\* The types of the tasks and what moving one coroutine does to them.
LEMMA MoveFacts ==
  ASSUME TypeOK, NEW n \in Nodes, NEW i \in Entries, NEW phase \in Phases, Move(n, i, phase)
  PROVE  /\ task' \in [Nodes -> [Entries -> Phases]]
         /\ task'[n][i] = phase
         /\ \A m \in Nodes, j \in Entries : m # n \/ j # i => task'[m][j] = task[m][j]
BY DEF TypeOK, Move

\* A coroutine that moves on, with a log that keeps its entries and reports
\* that only grow, preserves what is known of handlers.
LEMMA MoveKeeps ==
  ASSUME WInv, NEW n \in Nodes, NEW i \in Entries, NEW phase \in Phases \ {"none"},
         Move(n, i, phase), task[n][i] \notin {"none", "done", "failed", "lost"}, loop' = loop
  PROVE  OneHandlerPerEntry' /\ NoOrphans'
<1>1. /\ task'[n][i] = phase
      /\ \A m \in Nodes, j \in Entries : m # n \/ j # i => task'[m][j] = task[m][j]
  BY MoveFacts DEF WInv
<1>2. \A m \in Nodes, j \in Entries : task'[m][j] # "none" => task[m][j] # "none"
  BY <1>1
<1>3. OneHandlerPerEntry'
  BY <1>2 DEF OneHandlerPerEntry, WInv
<1>4. loop[n] \notin {"stopped", "down"}
  BY DEF NoOrphans, WInv
<1>5. NoOrphans'
  BY <1>1, <1>4 DEF NoOrphans, WInv
<1> QED
  BY <1>3, <1>5

\* The results stream holds pairs of an entry and a node.
LEMMA ReportTypes ==
  ASSUME TypeOK, NEW k \in DOMAIN reports
  PROVE  /\ reports[k].node \in Nodes /\ reports[k].entry \in Entries
         /\ reports[k] = [entry |-> reports[k].entry, node |-> reports[k].node]
<1> DEFINE R == [entry : Entries, node : Nodes]
<1>1. reports \in Seq(R)
  BY DEF TypeOK
<1> HIDE DEF R
<1>2. reports[k] \in R
  BY <1>1
<1> QED
  BY <1>2 DEF R

\* The handler of an entry is in the log.
LEMMA HandledInLog ==
  ASSUME TypeOK, NEW n \in Nodes, NEW i \in Entries, task[n][i] # "none"
  PROVE  i \in Ids(tasks) /\ tasks.log[i] \in Payload
<1>1. i \in Nat /\ i >= 1 /\ i <= tasks.last /\ tasks.last \in 0..Len(tasks.log)
      /\ tasks.log \in Seq(Payload)
  BY BoundsAssumption DEF TypeOK, IsStream, Entries
<1> QED
  BY <1>1 DEF Ids

-----------------------------------------------------------------------------
\* The two kinds of step

\* A step of the loop, a signal or a publication: no coroutine moves.
LEMMA QuietStep ==
  ASSUME WInv, task' = task, reports' = reports,
         IsStream(tasks', Payload, Nodes), tasks'.last >= tasks.last, LogKept,
         loop' \in [Nodes -> Loops], shutdown' \in [Nodes -> BOOLEAN],
         stops' \in 0..MaxStops, faults' \in 0..MaxFaults, NoOrphans'
  PROVE  WInv'
<1>1. TypeOK'
  <2>1. tasks.last \in Int /\ tasks'.last \in Int
    BY DEF WInv, TypeOK, IsStream
  <2>2. \A n \in Nodes, i \in Entries : task[n][i] # "none" => i <= tasks'.last
    BY <2>1, BoundsAssumption DEF WInv, TypeOK, Entries
  <2> QED
    BY <2>2 DEF WInv, TypeOK
<1>2. OneHandlerPerEntry' /\ ReportInv' /\ ReportedAtMostOnce'
  BY DEF WInv, OneHandlerPerEntry, ReportInv, ReportedAtMostOnce
<1>3. AckInv'
  <2> SUFFICES ASSUME NEW n \in Nodes, NEW i \in Entries, task[n][i] = "ack"
               PROVE  tasks'.log[i] = Junk \/ Reported(i)'
    BY DEF AckInv
  <2>1. i \in Ids(tasks)
    BY HandledInLog DEF WInv
  <2>2. tasks.log[i] = Junk \/ Reported(i)
    BY DEF WInv, AckInv
  <2> QED
    BY <2>1, <2>2 DEF LogKept, Reported
<1> QED
  BY <1>1, <1>2, <1>3 DEF WInv

\* A coroutine moves one phase on; it adds a report only when it was about to
\* report.
LEMMA MoveStep ==
  ASSUME WInv, NEW n \in Nodes, NEW i \in Entries,
         NEW phase \in Phases \ {"none", "queued"}, Move(n, i, phase),
         task[n][i] \in {"queued", "probe", "report", "ack"},
         task[n][i] = "ack" => phase \in {"done", "failed"},
         \/ reports' = reports
         \/ /\ reports' = Added(n, i)
            /\ task[n][i] = "report"
            /\ phase \in {"ack", "failed"},
         phase = "ack" => tasks.log[i] = Junk \/ reports' = Added(n, i),
         IsStream(tasks', Payload, Nodes), tasks'.last = tasks.last, tasks'.log = tasks.log,
         loop' = loop, shutdown' = shutdown, stops' = stops, faults' \in 0..MaxFaults
  PROVE  WInv'
<1>t. TypeOK
  BY DEF WInv
<1>m. /\ task' \in [Nodes -> [Entries -> Phases]]
      /\ task'[n][i] = phase
      /\ \A m \in Nodes, j \in Entries : m # n \/ j # i => task'[m][j] = task[m][j]
  BY <1>t, MoveFacts
<1>k. OneHandlerPerEntry' /\ NoOrphans'
  BY MoveKeeps
<1>r. /\ reports \in Seq([entry : Entries, node : Nodes]) /\ Len(reports) \in Nat
      /\ reports' \in Seq([entry : Entries, node : Nodes])
      /\ DOMAIN reports \subseteq DOMAIN reports'
      /\ \A k \in DOMAIN reports : reports'[k] = reports[k]
      /\ \A k \in DOMAIN reports' \ DOMAIN reports :
           /\ reports' = Added(n, i)
           /\ k = Len(reports) + 1
           /\ reports'[k] = [entry |-> i, node |-> n]
  <2>1. reports \in Seq([entry : Entries, node : Nodes])
    BY <1>t DEF TypeOK
  <2>2. CASE reports' = reports
    BY <2>1, <2>2
  <2>3. CASE reports' = Added(n, i)
    <3> DEFINE r == [entry |-> i, node |-> n]
    <3>1. r \in [entry : Entries, node : Nodes]
      OBVIOUS
    <3>2. reports' = Append(reports, r)
      BY <2>3 DEF Added
    <3> HIDE DEF r
    <3>3. /\ reports' \in Seq([entry : Entries, node : Nodes])
          /\ Len(reports') = Len(reports) + 1
          /\ \A k \in 1..Len(reports) : reports'[k] = reports[k]
          /\ reports'[Len(reports) + 1] = r
          /\ DOMAIN reports = 1..Len(reports) /\ DOMAIN reports' = 1..Len(reports')
          /\ Len(reports) \in Nat
      BY <2>1, <3>1, <3>2
    <3> QED
      BY <2>1, <2>3, <3>3 DEF r
  <2> QED
    BY <2>2, <2>3
<1>1. TypeOK'
  BY <1>t, <1>m, <1>r DEF TypeOK
<1>2. ReportInv'
  <2> SUFFICES ASSUME NEW k \in DOMAIN reports'
               PROVE  task'[reports'[k].node][reports'[k].entry] \in {"ack", "done", "failed", "lost"}
    BY DEF ReportInv
  <2>1. CASE k \in DOMAIN reports
    <3>1. reports[k].node \in Nodes /\ reports[k].entry \in Entries
      BY <1>t, <2>1, ReportTypes
    <3>2. task[reports[k].node][reports[k].entry] \in {"ack", "done", "failed", "lost"}
      BY <2>1 DEF WInv, ReportInv
    <3>3. CASE reports[k].node = n /\ reports[k].entry = i
      BY <3>2, <3>3, <1>r, <1>m, <2>1
    <3>4. CASE reports[k].node # n \/ reports[k].entry # i
      BY <3>1, <3>2, <3>4, <1>r, <1>m, <2>1
    <3> QED
      BY <3>3, <3>4
  <2>2. CASE k \notin DOMAIN reports
    <3>1. reports' = Added(n, i) /\ reports'[k] = [entry |-> i, node |-> n]
      BY <1>r, <2>2
    <3>2. reports' # reports
      BY <1>r, <2>2
    <3> QED
      BY <3>1, <3>2, <1>m
  <2> QED
    BY <2>1, <2>2
<1>3. ReportedAtMostOnce'
  <2>1. ASSUME NEW k \in DOMAIN reports, reports' # reports
        PROVE  reports[k].entry # i
    <3>1. reports[k].node \in Nodes /\ reports[k].entry \in Entries
      BY <1>t, ReportTypes
    <3>2. task[reports[k].node][reports[k].entry] \in {"ack", "done", "failed", "lost"}
      BY DEF WInv, ReportInv
    <3>3. task[n][i] = "report"
      BY <2>1
    <3>4. reports[k].entry = i => reports[k].node = n
      BY <3>1, <3>2, <3>3 DEF WInv, OneHandlerPerEntry
    <3> QED
      BY <3>2, <3>3, <3>4
  <2>2. \A k \in DOMAIN reports' \ DOMAIN reports : reports' # reports
    OBVIOUS
  <2>3. \A j, k \in DOMAIN reports : reports[j].entry = reports[k].entry => j = k
    BY DEF WInv, ReportedAtMostOnce
  <2>4. ASSUME NEW j \in DOMAIN reports', NEW k \in DOMAIN reports',
               reports'[j].entry = reports'[k].entry
        PROVE  j = k
    <3>1. CASE j \in DOMAIN reports /\ k \in DOMAIN reports
      BY <3>1, <2>3, <2>4, <1>r
    <3>2. CASE j \notin DOMAIN reports /\ k \in DOMAIN reports
      BY <3>2, <2>1, <2>2, <2>4, <1>r
    <3>3. CASE j \in DOMAIN reports /\ k \notin DOMAIN reports
      BY <3>3, <2>1, <2>2, <2>4, <1>r
    <3>4. CASE j \notin DOMAIN reports /\ k \notin DOMAIN reports
      BY <3>4, <1>r
    <3> QED
      BY <3>1, <3>2, <3>3, <3>4
  <2> QED
    BY <2>4 DEF ReportedAtMostOnce
<1>4. AckInv'
  <2> SUFFICES ASSUME NEW m \in Nodes, NEW j \in Entries, task'[m][j] = "ack"
               PROVE  tasks'.log[j] = Junk \/ Reported(j)'
    BY DEF AckInv
  <2>1. \A l \in Entries : Reported(l) => Reported(l)'
    BY <1>r DEF Reported
  <2>2. CASE m # n \/ j # i
    <3>1. task[m][j] = "ack"
      BY <2>2, <1>m
    <3> QED
      BY <3>1, <2>1 DEF WInv, AckInv
  <2>3. CASE m = n /\ j = i
    <3>1. phase = "ack"
      BY <2>3, <1>m
    <3>2. CASE tasks.log[i] = Junk
      BY <3>2, <2>3
    <3>3. CASE reports' = Added(n, i)
      <4>1. /\ Len(reports) + 1 \in DOMAIN reports'
            /\ reports'[Len(reports) + 1] = [entry |-> i, node |-> n]
        BY <3>3, <1>r DEF Added
      <4> QED
        BY <4>1, <2>3 DEF Reported
    <3> QED
      BY <3>1, <3>2, <3>3
  <2> QED
    BY <2>2, <2>3
<1> QED
  BY <1>1, <1>2, <1>3, <1>4, <1>k DEF WInv

-----------------------------------------------------------------------------
\* The invariant

LEMMA WInvInit == Init => WInv
<1> SUFFICES ASSUME Init PROVE WInv
  OBVIOUS
<1>1. /\ IsStream(tasks, Payload, Nodes)
      /\ loop = [n \in Nodes |-> "top"]
      /\ shutdown = [n \in Nodes |-> FALSE]
      /\ task = [n \in Nodes |-> [i \in Entries |-> "none"]]
      /\ reports = <<>> /\ stops = 0 /\ faults = 0
  BY EmptyStreamType DEF Init
<1>2. TypeOK
  BY <1>1, BoundsAssumption DEF TypeOK, Loops, Phases
<1>3. OneHandlerPerEntry /\ NoOrphans /\ AckInv
  BY <1>1 DEF OneHandlerPerEntry, NoOrphans, AckInv
<1>4. ReportInv /\ ReportedAtMostOnce
  BY <1>1 DEF ReportInv, ReportedAtMostOnce
<1> QED
  BY <1>2, <1>3, <1>4 DEF WInv

\* A reply starts handlers of entries no node has ever seen.
LEMMA ReadTasksKeeps ==
  ASSUME WInv, NEW n \in Nodes, ReadTasks(n)
  PROVE  WInv'
<1> DEFINE new == NewIds(tasks, Concurrency)
<1>t. TypeOK
  BY DEF WInv
<1>1. /\ IsStream(tasks', Payload, Nodes)
      /\ tasks'.log = tasks.log
      /\ new \subseteq Ids(tasks)
      /\ \A i \in new : i > tasks.last /\ i <= tasks'.last
      /\ tasks'.last >= tasks.last
  BY <1>t, XReadGroupKeeps, CheckerAssumption DEF ReadTasks, TypeOK
<1> HIDE DEF new
<1>2. /\ task' = [task EXCEPT ![n] = [i \in Entries |-> IF i \in new THEN "queued" ELSE task[n][i]]]
      /\ loop[n] = "reading" /\ loop' = [loop EXCEPT ![n] = "top"]
      /\ shutdown' = shutdown /\ reports' = reports /\ stops' = stops /\ faults' = faults
  BY DEF ReadTasks, Spawn, new
<1>3. /\ task' \in [Nodes -> [Entries -> Phases]]
      /\ \A i \in Entries : task'[n][i] = IF i \in new THEN "queued" ELSE task[n][i]
      /\ \A m \in Nodes \ {n} : task'[m] = task[m]
  BY <1>t, <1>2 DEF TypeOK, Phases
<1>4. \A m \in Nodes, i \in Entries : i \in new => task[m][i] = "none"
  <2>1. tasks.last \in Int
    BY <1>t DEF TypeOK, IsStream
  <2> QED
    BY <1>t, <1>1, <2>1, BoundsAssumption DEF TypeOK, Entries
<1>5. TypeOK'
  <2>1. tasks.last \in Int /\ tasks'.last \in Int
    BY <1>t, <1>1 DEF TypeOK, IsStream
  <2>2. loop' \in [Nodes -> Loops]
    BY <1>t, <1>2 DEF TypeOK, Loops
  <2>3. ASSUME NEW m \in Nodes, NEW i \in Entries, task'[m][i] # "none"
        PROVE  i <= tasks'.last
    <3>1. i \in Int
      BY BoundsAssumption DEF Entries
    <3>2. i \in new \/ task[m][i] # "none"
      BY <1>3, <2>3
    <3> QED
      BY <1>t, <1>1, <2>1, <3>1, <3>2 DEF TypeOK
  <2> QED
    BY <1>t, <1>1, <1>2, <1>3, <2>2, <2>3 DEF TypeOK
<1>6. OneHandlerPerEntry'
  <2> SUFFICES ASSUME NEW i \in Entries, NEW m \in Nodes, NEW k \in Nodes,
                      task'[m][i] # "none", task'[k][i] # "none"
               PROVE  m = k
    BY DEF OneHandlerPerEntry
  <2>1. CASE i \in new
    BY <2>1, <1>3, <1>4
  <2>2. CASE i \notin new
    <3>1. task[m][i] # "none" /\ task[k][i] # "none"
      BY <2>2, <1>3
    <3> QED
      BY <3>1 DEF WInv, OneHandlerPerEntry
  <2> QED
    BY <2>1, <2>2
<1>7. NoOrphans'
  BY <1>t, <1>2, <1>3 DEF WInv, NoOrphans, TypeOK
<1>8. ReportInv'
  <2> SUFFICES ASSUME NEW k \in DOMAIN reports
               PROVE  task'[reports[k].node][reports[k].entry] \in {"ack", "done", "failed", "lost"}
    BY <1>2 DEF ReportInv
  <2>1. reports[k].node \in Nodes /\ reports[k].entry \in Entries
    BY <1>t, ReportTypes
  <2>2. task[reports[k].node][reports[k].entry] \in {"ack", "done", "failed", "lost"}
    BY DEF WInv, ReportInv
  <2> QED
    BY <1>3, <1>4, <2>1, <2>2
<1>9. ReportedAtMostOnce'
  BY <1>2 DEF WInv, ReportedAtMostOnce
<1>10. AckInv'
  <2>1. \A m \in Nodes, i \in Entries : task'[m][i] = "ack" => task[m][i] = "ack"
    BY <1>3
  <2> QED
    BY <1>1, <1>2, <2>1 DEF WInv, AckInv, Reported
<1> QED
  BY <1>5, <1>6, <1>7, <1>8, <1>9, <1>10 DEF WInv

\* A crash ends the handlers of one node for good.
LEMMA CrashKeeps ==
  ASSUME WInv, NEW n \in Nodes, Crash(n)
  PROVE  WInv'
<1>t. TypeOK
  BY DEF WInv
<1>2. /\ task' = [task EXCEPT ![n] = [i \in Entries |-> IF i \in InFlight(n) THEN "lost" ELSE @[i]]]
      /\ loop' = [loop EXCEPT ![n] = "down"]
      /\ tasks' = tasks /\ shutdown' = shutdown /\ reports' = reports /\ stops' = stops
      /\ faults' \in 0..MaxFaults
  BY <1>t, BoundsAssumption DEF Crash, Faulty, TypeOK
<1>3. /\ task' \in [Nodes -> [Entries -> Phases]]
      /\ \A i \in Entries : task'[n][i] = IF i \in InFlight(n) THEN "lost" ELSE task[n][i]
      /\ \A m \in Nodes \ {n} : task'[m] = task[m]
  BY <1>t, <1>2 DEF TypeOK, Phases
<1>4. \A i \in Entries : i \in InFlight(n) <=> task[n][i] \in {"queued", "probe", "report", "ack"}
  BY DEF InFlight, Slots
<1>5. \A m \in Nodes, i \in Entries : task'[m][i] # "none" => task[m][i] # "none"
  BY <1>3, <1>4
<1>6. TypeOK'
  BY <1>t, <1>2, <1>3, <1>5 DEF TypeOK, Loops
<1>7. OneHandlerPerEntry'
  BY <1>5 DEF WInv, OneHandlerPerEntry
<1>8. NoOrphans'
  <2> SUFFICES ASSUME NEW m \in Nodes, loop'[m] \in {"stopped", "down"}, NEW i \in Entries
               PROVE  task'[m][i] \in {"none", "done", "failed", "lost"}
    BY DEF NoOrphans
  <2>1. CASE m = n
    <3>1. task[n][i] \in Phases
      BY <1>t DEF TypeOK
    <3> QED
      BY <1>3, <1>4, <2>1, <3>1 DEF Phases
  <2>2. CASE m # n
    BY <1>t, <1>2, <1>3, <2>2 DEF WInv, NoOrphans, TypeOK
  <2> QED
    BY <2>1, <2>2
<1>9. ReportInv'
  <2> SUFFICES ASSUME NEW k \in DOMAIN reports
               PROVE  task'[reports[k].node][reports[k].entry] \in {"ack", "done", "failed", "lost"}
    BY <1>2 DEF ReportInv
  <2>1. reports[k].node \in Nodes /\ reports[k].entry \in Entries
    BY <1>t, ReportTypes
  <2>2. task[reports[k].node][reports[k].entry] \in {"ack", "done", "failed", "lost"}
    BY DEF WInv, ReportInv
  <2> QED
    BY <1>3, <2>1, <2>2
<1>10. ReportedAtMostOnce'
  BY <1>2 DEF WInv, ReportedAtMostOnce
<1>11. AckInv'
  <2>1. \A m \in Nodes, i \in Entries : task'[m][i] = "ack" => task[m][i] = "ack"
    BY <1>3
  <2> QED
    BY <1>2, <2>1 DEF WInv, AckInv, Reported
<1> QED
  BY <1>6, <1>7, <1>8, <1>9, <1>10, <1>11 DEF WInv

\* The steps of the main loop.
LEMMA LoopKeeps ==
  ASSUME WInv, NEW n \in Nodes, Loop(n)
  PROVE  WInv'
<1>t. TypeOK
  BY DEF WInv
<1>s. IsStream(tasks, Payload, Nodes) /\ tasks.last \in Int
  BY <1>t DEF TypeOK, IsStream
<1>1. CASE LoopTop(n)
  <2>1. loop' \in [Nodes -> Loops] /\ NoOrphans'
    BY <1>t, <1>1 DEF LoopTop, TypeOK, Loops, WInv, NoOrphans
  <2> QED
    BY <1>t, <1>s, <1>1, <2>1, QuietStep DEF LoopTop, TypeOK, LogKept
<1>2. CASE ReadTasks(n)
  BY <1>2, ReadTasksKeeps
<1>3. CASE ReadNothing(n)
  <2>1. loop' \in [Nodes -> Loops] /\ NoOrphans'
    BY <1>t, <1>3 DEF ReadNothing, TypeOK, Loops, WInv, NoOrphans
  <2> QED
    BY <1>t, <1>s, <1>3, <2>1, QuietStep DEF ReadNothing, TypeOK, LogKept
<1>4. CASE Drained(n)
  <2>1. \A i \in Entries : task[n][i] \in {"none", "done", "failed", "lost"}
    <3>1. \A i \in Entries : task[n][i] \in Phases
      BY <1>t DEF TypeOK
    <3> QED
      BY <1>4, <3>1 DEF Drained, InFlight, Slots, Phases
  <2>2. loop' \in [Nodes -> Loops] /\ NoOrphans'
    BY <1>t, <1>4, <2>1 DEF Drained, TypeOK, Loops, WInv, NoOrphans
  <2> QED
    BY <1>t, <1>s, <1>4, <2>2, QuietStep DEF Drained, TypeOK, LogKept
<1> QED
  BY <1>1, <1>2, <1>3, <1>4 DEF Loop

\* The steps of a handler, the failing ones included.
LEMMA HandleKeeps ==
  ASSUME WInv, NEW n \in Nodes, NEW i \in Entries,
         Handle(n, i) \/ ReportFailed(n, i) \/ AckFailed(n, i)
  PROVE  WInv'
<1>t. TypeOK
  BY DEF WInv
<1>s. /\ IsStream(tasks, Payload, Nodes) /\ faults \in 0..MaxFaults
      /\ Faulty => faults' \in 0..MaxFaults
  BY <1>t, BoundsAssumption DEF TypeOK, Faulty
<1>a. /\ IsStream(XAck(tasks, i), Payload, Nodes)
      /\ XAck(tasks, i).last = tasks.last /\ XAck(tasks, i).log = tasks.log
  BY <1>s, XAckKeeps
<1>1. CASE Begin(n, i)
  <2>1. CASE tasks.log[i] = Junk
    BY <1>s, <1>1, <2>1, MoveStep DEF Begin, Phases
  <2>2. CASE tasks.log[i] # Junk
    BY <1>s, <1>1, <2>2, MoveStep DEF Begin, Phases
  <2> QED
    BY <2>1, <2>2
<1>2. CASE Probe(n, i)
  BY <1>s, <1>2, MoveStep DEF Probe, Phases
<1>3. CASE Report(n, i)
  BY <1>s, <1>3, MoveStep DEF Report, Phases
<1>4. CASE Ack(n, i)
  BY <1>s, <1>a, <1>4, MoveStep DEF Ack, Phases
<1>5. CASE ReportFailed(n, i)
  BY <1>s, <1>5, MoveStep DEF ReportFailed, Phases
<1>6. CASE AckFailed(n, i)
  BY <1>s, <1>a, <1>6, MoveStep DEF AckFailed, Phases
<1> QED
  BY <1>1, <1>2, <1>3, <1>4, <1>5, <1>6 DEF Handle

\* Every step preserves the invariant.
LEMMA WInvNext == WInv /\ [Next]_vars => WInv'
<1> SUFFICES ASSUME WInv, [Next]_vars PROVE WInv'
  OBVIOUS
<1>t. TypeOK
  BY DEF WInv
<1>s. /\ IsStream(tasks, Payload, Nodes) /\ tasks.last \in Int
      /\ Faulty => faults' \in 0..MaxFaults
  BY <1>t, BoundsAssumption DEF TypeOK, IsStream, Faulty
<1>1. ASSUME NEW n \in Nodes, Loop(n) PROVE WInv'
  BY <1>1, LoopKeeps
<1>2. ASSUME NEW n \in Nodes, Start(n) PROVE WInv'
  <2>1. PICK idle \in SUBSET Pending(tasks) : tasks' = XAutoClaim(tasks, n, idle)
    BY <1>2 DEF Start
  <2>2. /\ IsStream(tasks', Payload, Nodes)
        /\ tasks'.log = tasks.log /\ tasks'.last = tasks.last
    BY <1>s, <2>1, XAutoClaimKeeps
  <2>3. /\ loop' \in [Nodes -> Loops] /\ shutdown' \in [Nodes -> BOOLEAN] /\ NoOrphans'
    BY <1>t, <1>2 DEF Start, TypeOK, Loops, WInv, NoOrphans
  <2>4. /\ task' = task /\ reports' = reports /\ stops' = stops /\ faults' = faults
    BY <1>2 DEF Start
  <2> QED
    BY <1>t, <1>s, <2>2, <2>3, <2>4, QuietStep DEF TypeOK, LogKept
<1>3. ASSUME NEW n \in Nodes, Signal(n) PROVE WInv'
  <2>1. /\ tasks' = tasks /\ loop' = loop /\ task' = task /\ reports' = reports
        /\ faults' = faults
    BY <1>3 DEF Signal
  <2>2. stops' \in 0..MaxStops /\ shutdown' \in [Nodes -> BOOLEAN]
    BY <1>t, <1>3, BoundsAssumption DEF Signal, TypeOK
  <2>3. NoOrphans'
    BY <2>1 DEF WInv, NoOrphans
  <2> QED
    BY <1>t, <1>s, <2>1, <2>2, <2>3, QuietStep DEF TypeOK, LogKept
<1>4. ASSUME NEW n \in Nodes, ReadFailed(n) PROVE WInv'
  <2>1. /\ task' = task /\ reports' = reports /\ stops' = stops /\ shutdown' = shutdown
        /\ faults' \in 0..MaxFaults
        /\ tasks' = tasks \/ tasks' = XReadGroup(tasks, n, Concurrency)
    BY <1>s, <1>4 DEF ReadFailed
  <2>2. loop' \in [Nodes -> Loops] /\ NoOrphans'
    BY <1>t, <1>4 DEF ReadFailed, TypeOK, Loops, WInv, NoOrphans
  <2>3. /\ IsStream(tasks', Payload, Nodes)
        /\ tasks'.log = tasks.log /\ tasks'.last >= tasks.last
    <3>1. CASE tasks' = tasks
      BY <1>s, <3>1
    <3>2. CASE tasks' = XReadGroup(tasks, n, Concurrency)
      BY <1>s, <3>2, XReadGroupKeeps, CheckerAssumption
    <3> QED
      BY <2>1, <3>1, <3>2
  <2> QED
    BY <1>t, <2>1, <2>2, <2>3, QuietStep DEF TypeOK, LogKept
<1>5. ASSUME NEW n \in Nodes, NEW i \in Entries,
             Handle(n, i) \/ ReportFailed(n, i) \/ AckFailed(n, i)
      PROVE  WInv'
  BY <1>5, HandleKeeps
<1>6. ASSUME NEW n \in Nodes, Crash(n) PROVE WInv'
  BY <1>6, CrashKeeps
<1>7. ASSUME NEW p \in Payload, Publish(p) PROVE WInv'
  <2>1. /\ IsStream(tasks', Payload, Nodes) /\ tasks'.last = tasks.last /\ LogKept
    BY <1>s, <1>7, XAddKeeps, CheckerAssumption DEF Publish, LogKept
  <2>2. /\ loop' = loop /\ shutdown' = shutdown /\ task' = task /\ reports' = reports
        /\ stops' = stops /\ faults' = faults
    BY <1>7 DEF Publish
  <2>3. NoOrphans'
    BY <2>2 DEF WInv, NoOrphans
  <2> QED
    BY <1>t, <1>s, <2>1, <2>2, <2>3, QuietStep DEF TypeOK
<1>8. CASE UNCHANGED vars
  <2>1. NoOrphans'
    BY <1>8 DEF vars, WInv, NoOrphans
  <2> QED
    BY <1>t, <1>s, <1>8, <2>1, QuietStep DEF vars, TypeOK, LogKept
<1> QED
  BY <1>1, <1>2, <1>3, <1>4, <1>5, <1>6, <1>7, <1>8 DEF Next, Fault

-----------------------------------------------------------------------------
\* The theorems

\* The inductive invariant of the checker worker.
THEOREM WorkerInvariant == Spec => []WInv
BY WInvInit, WInvNext, PTL DEF Spec

\* Every variable keeps its type.
THEOREM WorkerTypes == Spec => []TypeOK
<1>1. WInv => TypeOK
  BY DEF WInv
<1> QED
  BY <1>1, WorkerInvariant, PTL

\* One entry of the tasks stream has one handler for good, through failures of
\* Redis, crashes, restarts and claims.
THEOREM OneHandlerForGood == Spec => []OneHandlerPerEntry
<1>1. WInv => OneHandlerPerEntry
  BY DEF WInv
<1> QED
  BY <1>1, WorkerInvariant, PTL

\* No task is reported twice.
THEOREM NoSecondReport == Spec => []ReportedAtMostOnce
<1>1. WInv => ReportedAtMostOnce
  BY DEF WInv
<1> QED
  BY <1>1, WorkerInvariant, PTL

\* A node that stopped on a signal left no coroutine behind.
THEOREM StopsCleanly == Spec => []CleanStop
<1>1. WInv => CleanStop
  BY DEF WInv, NoOrphans, CleanStop
<1> QED
  BY <1>1, WorkerInvariant, PTL

\* What leaves the pending list was reported, is junk, or was trimmed.
LEMMA AckStep == WInv /\ [Next]_vars =>
  (\A i \in Pending(tasks) \ Pending(tasks') :
     tasks.log[i] = Junk \/ Reported(i)' \/ i < tasks.first)
<1> SUFFICES ASSUME WInv, [Next]_vars, NEW i \in Pending(tasks) \ Pending(tasks')
             PROVE  tasks.log[i] = Junk \/ Reported(i)' \/ i < tasks.first
  OBVIOUS
<1>s. IsStream(tasks, Payload, Nodes) /\ Concurrency \in Nat \ {0} /\ TasksMaxLen \in Nat \ {0}
  BY CheckerAssumption DEF WInv, TypeOK
<1>a. ASSUME NEW n \in Nodes, NEW j \in Entries, task[n][j] = "ack",
             tasks' = XAck(tasks, j), reports' = reports
      PROVE  tasks.log[i] = Junk \/ Reported(i)'
  <2>1. i = j
    BY <1>s, <1>a, XAckKeeps
  <2>2. tasks.log[j] = Junk \/ Reported(j)
    BY <1>a DEF WInv, AckInv
  <2> QED
    BY <1>a, <2>1, <2>2 DEF Reported
<1>r. ASSUME NEW n \in Nodes PROVE Pending(tasks) \subseteq Pending(XReadGroup(tasks, n, Concurrency))
  BY <1>s, XReadGroupKeeps
<1>k. tasks' # tasks
  OBVIOUS
<1>1. ASSUME NEW n \in Nodes, Loop(n) PROVE FALSE
  BY <1>1, <1>k, <1>r DEF Loop, LoopTop, ReadTasks, ReadNothing, Drained
<1>2. ASSUME NEW n \in Nodes, Start(n) PROVE i < tasks.first
  <2>1. PICK idle \in SUBSET Pending(tasks) : tasks' = XAutoClaim(tasks, n, idle)
    BY <1>2 DEF Start
  <2> QED
    BY <1>s, <2>1, XAutoClaimKeeps
<1>3. ASSUME NEW n \in Nodes, Signal(n) \/ Crash(n) \/ ReadFailed(n) PROVE FALSE
  BY <1>3, <1>k, <1>r DEF Signal, Crash, ReadFailed
<1>4. ASSUME NEW n \in Nodes, NEW j \in Entries, Handle(n, j) \/ ReportFailed(n, j) \/ AckFailed(n, j)
      PROVE  tasks.log[i] = Junk \/ Reported(i)'
  BY <1>4, <1>k, <1>a DEF Handle, Begin, Probe, Report, Ack, ReportFailed, AckFailed
<1>5. ASSUME NEW p \in Payload, Publish(p) PROVE FALSE
  <2>1. tasks'.pel = tasks.pel
    BY <1>s, <1>5, XAddKeeps DEF Publish
  <2> QED
    BY <2>1 DEF Pending
<1>6. CASE UNCHANGED vars
  BY <1>6, <1>k DEF vars
<1> QED
  BY <1>1, <1>2, <1>3, <1>4, <1>5, <1>6 DEF Next, Fault

\* A task is acknowledged only when its result is in the results stream.
THEOREM AckedWhenReported == Spec => AckMeansReported
<1>1. WInv /\ [Next]_vars =>
        [\A i \in Pending(tasks) \ Pending(tasks') :
           tasks.log[i] = Junk \/ Reported(i)' \/ i < tasks.first]_vars
  BY AckStep
<1> QED
  BY <1>1, WorkerInvariant, PTL DEF Spec, AckMeansReported

-----------------------------------------------------------------------------
\* The ledger of tasks

\* The stream holds no more than the bound of the model, so its entries are
\* tasks of the ledger.
LogBounded == Len(tasks.log) <= MaxTasks

Book == [i \in Entries |-> Takers(i)]

Books == <<Book, reports, Pending(tasks), Excused>>

\* Every id of the stream is a task of the ledger.
LEMMA IdsAreEntries ==
  ASSUME TypeOK, LogBounded
  PROVE  Ids(tasks) \subseteq Entries /\ Pending(tasks) \subseteq Ids(tasks)
<1>1. Len(tasks.log) \in Nat /\ tasks.last \in 0..Len(tasks.log)
      /\ Pending(tasks) \subseteq 1..tasks.last
  BY DEF TypeOK, IsStream
<1> QED
  BY <1>1, BoundsAssumption DEF LogBounded, Ids, Entries

\* No step adds more entries than the bound.
LEMMA LogBoundedNext == TypeOK /\ LogBounded /\ [Next]_vars => LogBounded'
<1> SUFFICES ASSUME TypeOK, LogBounded, [Next]_vars PROVE LogBounded'
  OBVIOUS
<1>s. IsStream(tasks, Payload, Nodes) /\ Len(tasks.log) \in Nat
  BY DEF TypeOK, IsStream
<1>1. CASE tasks'.log = tasks.log
  BY <1>1 DEF LogBounded
<1>2. ASSUME NEW p \in Payload, Publish(p) PROVE LogBounded'
  <2>1. Len(tasks'.log) = Len(tasks.log) + 1 /\ Len(tasks.log) < MaxTasks
    BY <1>s, <1>2, XAddKeeps, CheckerAssumption DEF Publish
  <2> QED
    BY <1>s, <2>1, BoundsAssumption DEF LogBounded
<1>3. \A idle, i : \A n \in Nodes :
        /\ XReadGroup(tasks, n, Concurrency).log = tasks.log
        /\ XAutoClaim(tasks, n, idle).log = tasks.log
        /\ XAck(tasks, i).log = tasks.log
  BY DEF XReadGroup, XAutoClaim, XAck, WithPel
<1>4. ASSUME NEW n \in Nodes, Loop(n) \/ Start(n) \/ Signal(n) \/ ReadFailed(n) \/ Crash(n)
      PROVE  tasks'.log = tasks.log
  BY <1>3, <1>4 DEF Loop, LoopTop, ReadTasks, ReadNothing, Drained, Start, Signal, ReadFailed,
     Crash
<1>5. ASSUME NEW n \in Nodes, NEW i \in Entries,
             Handle(n, i) \/ ReportFailed(n, i) \/ AckFailed(n, i)
      PROVE  tasks'.log = tasks.log
  BY <1>3, <1>5 DEF Handle, Begin, Probe, Report, Ack, ReportFailed, AckFailed
<1> QED
  BY <1>1, <1>2, <1>4, <1>5 DEF Next, Fault, vars

\* A handler that starts, moves or ends is still the taker of its task.
LEMMA BookKept ==
  ASSUME \A m \in Nodes, j \in Entries : task'[m][j] # "none" <=> task[m][j] # "none"
  PROVE  Book' = Book
<1>1. \A j \in Entries : Takers(j)' = Takers(j)
  BY DEF Takers
<1> QED
  BY <1>1 DEF Book

\* A step of one handler leaves the takers alone.
LEMMA MoveKeepsBook ==
  ASSUME TypeOK, NEW n \in Nodes, NEW i \in Entries, NEW phase \in Phases \ {"none"},
         Move(n, i, phase), task[n][i] # "none"
  PROVE  Book' = Book
BY MoveFacts, BookKept

\* What needs no report does not change when only the group's view of the
\* stream does.
LEMMA ExcusedKept ==
  ASSUME tasks'.log = tasks.log, tasks'.first = tasks.first PROVE Excused' = Excused
BY DEF Excused, Ids

\* The taker of a task that has still to report it is its only taker, and the
\* task has not been reported.
LEMMA UntoldTask ==
  ASSUME WInv, NEW n \in Nodes, NEW i \in Entries, task[n][i] = "report"
  PROVE  Book[i] = {n} /\ ~Ledger!Told(i)
<1>1. Book[i] = {n}
  BY DEF Book, Takers, WInv, OneHandlerPerEntry
<1>2. ASSUME NEW k \in DOMAIN reports, reports[k].entry = i PROVE FALSE
  <2>1. reports[k].node \in Nodes
    BY ReportTypes DEF WInv
  <2>2. task[reports[k].node][i] \in {"ack", "done", "failed", "lost"}
    BY <1>2 DEF WInv, ReportInv
  <2>3. reports[k].node = n
    BY <2>1, <2>2 DEF WInv, OneHandlerPerEntry
  <2> QED
    BY <2>2, <2>3
<1> QED
  BY <1>1, <1>2 DEF Ledger!Told

\* A read hands out tasks that nobody has taken.
LEMMA ReadIsFresh ==
  ASSUME WInv, LogBounded, NEW n \in Nodes
  PROVE  LET new == NewIds(tasks, Concurrency)
             read == XReadGroup(tasks, n, Concurrency) IN
         /\ new \in SUBSET Entries
         /\ \A m \in Nodes, i \in new : task[m][i] = "none"
         /\ \A i \in new : Book[i] = {}
         /\ Pending(read) = Pending(tasks) \cup new
         /\ read.log = tasks.log /\ read.first = tasks.first
<1> DEFINE new == NewIds(tasks, Concurrency)
<1>1. /\ new \subseteq Ids(tasks) /\ \A i \in new : i > tasks.last
      /\ Pending(XReadGroup(tasks, n, Concurrency)) = Pending(tasks) \cup new
      /\ XReadGroup(tasks, n, Concurrency).log = tasks.log
      /\ XReadGroup(tasks, n, Concurrency).first = tasks.first
  BY XReadGroupKeeps, CheckerAssumption DEF WInv, TypeOK
<1>2. new \subseteq Entries
  BY <1>1, IdsAreEntries DEF WInv
<1> HIDE DEF new
<1>3. \A m \in Nodes, i \in new : task[m][i] = "none"
  <2>1. tasks.last \in Int
    BY DEF WInv, TypeOK, IsStream
  <2> QED
    BY <1>1, <1>2, <2>1, BoundsAssumption DEF WInv, TypeOK, Entries
<1>4. \A i \in new : Book[i] = {}
  BY <1>2, <1>3 DEF Book, Takers
<1> QED
  BY <1>1, <1>2, <1>3, <1>4 DEF new

\* The steps of the main loop and of a start.
LEMMA LoopKeepsLedger ==
  ASSUME WInv, LogBounded, NEW n \in Nodes,
         Loop(n) \/ Start(n) \/ Signal(n) \/ ReadFailed(n) \/ Crash(n)
  PROVE  [Ledger!LedgerNext]_Books
<1> DEFINE new == NewIds(tasks, Concurrency)
<1>t. task \in [Nodes -> [Entries -> Phases]]
  BY DEF WInv, TypeOK
<1>0. CASE UNCHANGED <<tasks, task, reports>>
  <2>1. UNCHANGED <<Book, Pending(tasks), Excused>>
    BY <1>0, BookKept, ExcusedKept DEF Pending
  <2> QED
    BY <1>0, <2>1 DEF Books
<1>1. CASE ReadTasks(n)
  <2>1. new \in SUBSET Entries /\ Ledger!Untaken(new)
    BY ReadIsFresh DEF Ledger!Untaken, Book
  <2>2. Pending(tasks') = Pending(tasks) \cup new /\ Excused' = Excused /\ reports' = reports
    BY <1>1, ReadIsFresh, ExcusedKept DEF ReadTasks
  <2>3. Book' = [i \in Entries |-> IF i \in new THEN {n} ELSE Book[i]]
    <3>1. /\ \A i \in Entries : task'[n][i] = IF i \in new THEN "queued" ELSE task[n][i]
          /\ \A m \in Nodes \ {n} : task'[m] = task[m]
      BY <1>t, <1>1 DEF ReadTasks, Spawn
    <3>2. \A m \in Nodes, i \in new : task[m][i] = "none"
      BY ReadIsFresh
    <3> HIDE DEF new
    <3>3. \A i \in Entries : Takers(i)' = IF i \in new THEN {n} ELSE Takers(i)
      BY <3>1, <3>2 DEF Takers
    <3> QED
      BY <3>3 DEF Book
  <2>4. Ledger!Take(n, new)
    BY <2>1, <2>2, <2>3 DEF Ledger!Take, Book
  <2> QED
    BY <2>1, <2>4 DEF Ledger!LedgerNext
<1>2. CASE ReadFailed(n) /\ tasks' # tasks
  <2>1. new \in SUBSET Entries /\ Ledger!Untaken(new)
    BY ReadIsFresh DEF Ledger!Untaken, Book
  <2>2. tasks' = XReadGroup(tasks, n, Concurrency) /\ task' = task /\ reports' = reports
    BY <1>2 DEF ReadFailed
  <2>3. Pending(tasks') = Pending(tasks) \cup new /\ Excused' = Excused /\ Book' = Book
    BY <2>2, ReadIsFresh, ExcusedKept, BookKept
  <2>4. Ledger!Mislay(new)
    BY <2>1, <2>2, <2>3 DEF Ledger!Mislay, Book
  <2> QED
    BY <2>1, <2>4 DEF Ledger!LedgerNext
<1>3. CASE Start(n)
  <2>1. PICK idle \in SUBSET Pending(tasks) : tasks' = XAutoClaim(tasks, n, idle)
    BY <1>3 DEF Start
  <2>2. /\ tasks'.log = tasks.log /\ tasks'.first = tasks.first
        /\ Pending(tasks') \subseteq Pending(tasks)
        /\ \A i \in Pending(tasks) \ Pending(tasks') : i < tasks.first
    BY <2>1, XAutoClaimKeeps DEF WInv, TypeOK
  <2> DEFINE gone == Pending(tasks) \ Pending(tasks')
  <2>3. gone \in SUBSET Entries /\ \A i \in gone : i \in Excused
    BY <2>2, IdsAreEntries DEF WInv, Excused
  <2>4. Pending(tasks') = Pending(tasks) \ gone
    BY <2>2
  <2>5. Book' = Book /\ Excused' = Excused /\ reports' = reports
    BY <1>3, <2>2, BookKept, ExcusedKept DEF Start
  <2> HIDE DEF gone
  <2>6. Ledger!Settle(gone)
    BY <2>3, <2>4, <2>5 DEF Ledger!Settle, Book
  <2> QED
    BY <2>3, <2>6 DEF Ledger!LedgerNext
<1>4. CASE Crash(n)
  <2>1. /\ \A i \in Entries : task'[n][i] = IF i \in InFlight(n) THEN "lost" ELSE task[n][i]
        /\ \A m \in Nodes \ {n} : task'[m] = task[m]
    BY <1>t, <1>4 DEF Crash
  <2>2. \A m \in Nodes, i \in Entries : task'[m][i] # "none" <=> task[m][i] # "none"
    BY <2>1 DEF InFlight, Slots
  <2>3. UNCHANGED <<Book, Pending(tasks), Excused, reports>>
    BY <1>4, <2>2, BookKept, ExcusedKept DEF Crash, Pending
  <2> QED
    BY <2>3 DEF Books
<1> QED
  BY <1>0, <1>1, <1>2, <1>3, <1>4 DEF Loop, LoopTop, ReadNothing, Drained, Signal, ReadFailed

\* The steps of a handler.
LEMMA HandleKeepsLedger ==
  ASSUME WInv, LogBounded, NEW n \in Nodes, NEW i \in Entries,
         Handle(n, i) \/ ReportFailed(n, i) \/ AckFailed(n, i)
  PROVE  [Ledger!LedgerNext]_Books
<1>t. TypeOK
  BY DEF WInv
<1>1. Book' = Book
  BY <1>t, MoveKeepsBook DEF Handle, Begin, Probe, Report, Ack, ReportFailed, AckFailed, Phases
<1>2. CASE UNCHANGED <<tasks, reports>>
  <2>1. UNCHANGED <<Pending(tasks), Excused>>
    BY <1>2, ExcusedKept DEF Pending
  <2> QED
    BY <1>1, <1>2, <2>1 DEF Books
<1>3. CASE task[n][i] = "report" /\ reports' = Added(n, i) /\ tasks' = tasks
  <2>1. Book[i] = {n} /\ ~Ledger!Told(i)
    BY <1>3, UntoldTask
  <2>2. UNCHANGED <<Pending(tasks), Excused>>
    BY <1>3, ExcusedKept DEF Pending
  <2>3. Ledger!Tell(n, i)
    BY <1>1, <1>3, <2>1, <2>2 DEF Ledger!Tell, Added, Book
  <2> QED
    BY <2>3 DEF Ledger!LedgerNext
<1>4. CASE task[n][i] = "ack" /\ reports' = reports /\ tasks' = XAck(tasks, i)
  <2>1. /\ Pending(tasks') = Pending(tasks) \ {i}
        /\ tasks'.log = tasks.log /\ tasks'.first = tasks.first
    BY <1>t, <1>4, XAckKeeps DEF TypeOK
  <2>2. Excused' = Excused
    BY <2>1, ExcusedKept
  <2>3. Ledger!Told(i) \/ i \in Excused
    <3>1. i \in Ids(tasks)
      BY <1>t, <1>4, HandledInLog
    <3>2. tasks.log[i] = Junk \/ Reported(i)
      BY <1>4 DEF WInv, AckInv
    <3> QED
      BY <3>1, <3>2 DEF Excused, Reported, Ledger!Told
  <2>4. Ledger!Settle({i})
    BY <1>1, <1>4, <2>1, <2>2, <2>3 DEF Ledger!Settle, Book
  <2> QED
    BY <2>4 DEF Ledger!LedgerNext
<1> QED
  BY <1>2, <1>3, <1>4 DEF Handle, Begin, Probe, Report, Ack, ReportFailed, AckFailed

\* A publication excuses what does not parse and what is trimmed.
LEMMA PublishKeepsLedger ==
  ASSUME WInv, LogBounded, LogBounded', NEW p \in Payload, Publish(p)
  PROVE  Ledger!LedgerNext
<1>1. /\ Len(tasks'.log) = Len(tasks.log) + 1 /\ tasks'.first >= tasks.first
      /\ tasks'.pel = tasks.pel
      /\ \A i \in Ids(tasks) : tasks'.log[i] = tasks.log[i]
  BY XAddKeeps, CheckerAssumption DEF WInv, TypeOK, Publish
<1>2. /\ Len(tasks.log) \in Nat /\ tasks.first \in Int /\ tasks'.first \in Int
      /\ Len(tasks'.log) \in Nat
  <2>1. IsStream(tasks, Payload, Nodes) /\ IsStream(tasks', Payload, Nodes)
    BY XAddKeeps, CheckerAssumption DEF WInv, TypeOK, Publish
  <2>2. /\ tasks.log \in Seq(Payload) /\ tasks.first \in 1..Len(tasks.log) + 1
        /\ tasks'.log \in Seq(Payload) /\ tasks'.first \in 1..Len(tasks'.log) + 1
    BY <2>1 DEF IsStream
  <2> QED
    BY <2>2
<1>3. Ids(tasks) \subseteq Ids(tasks') /\ Ids(tasks') \subseteq Entries
  BY <1>1, <1>2, BoundsAssumption DEF Ids, Entries, LogBounded
<1>4. Excused \subseteq Excused' /\ Excused' \subseteq Entries
  BY <1>1, <1>2, <1>3 DEF Excused, Ids
<1>5. Book' = Book /\ reports' = reports /\ Pending(tasks') = Pending(tasks)
  BY <1>1, BookKept DEF Publish, Pending
<1>6. Excused' = Excused \cup Excused'
  BY <1>4
<1>7. PICK ids \in SUBSET Entries : Excused' = Excused \cup ids
  BY <1>4, <1>6
<1>8. Ledger!Excuse(ids)
  BY <1>5, <1>7 DEF Ledger!Excuse, Book
<1> QED
  BY <1>8 DEF Ledger!LedgerNext

\* The checker nodes implement the ledger of tasks: one taker for good, one
\* report by the taker, and nothing settled that is neither reported nor
\* excused, through every failure, stop, crash, restart and claim.
THEOREM RefinesTaskLedger == Spec => ImplementsTasks
<1>1. Init => Ledger!LedgerInit
  <2> SUFFICES ASSUME Init PROVE Ledger!LedgerInit
    OBVIOUS
  <2>1. /\ tasks = EmptyStream /\ reports = <<>>
        /\ \A i \in Entries : Takers(i) = {}
    BY DEF Init, Takers
  <2>2. Pending(tasks) = {} /\ Excused = {}
    BY <2>1, EmptyStreamType DEF Excused, Ids, EmptyStream
  <2> QED
    BY <2>1, <2>2 DEF Ledger!LedgerInit
<1>2. Init => LogBounded
  BY BoundsAssumption DEF Init, LogBounded, EmptyStream
<1>3. WInv /\ LogBounded /\ [Next]_vars => LogBounded'
  BY LogBoundedNext DEF WInv
<1>4. WInv /\ LogBounded /\ LogBounded' /\ [Next]_vars => [Ledger!LedgerNext]_Books
  <2> SUFFICES ASSUME WInv, LogBounded, LogBounded', [Next]_vars
               PROVE  [Ledger!LedgerNext]_Books
    OBVIOUS
  <2>1. ASSUME NEW n \in Nodes, Loop(n) \/ Start(n) \/ Signal(n) \/ ReadFailed(n) \/ Crash(n)
        PROVE  [Ledger!LedgerNext]_Books
    BY <2>1, LoopKeepsLedger
  <2>2. ASSUME NEW n \in Nodes, NEW i \in Entries,
               Handle(n, i) \/ ReportFailed(n, i) \/ AckFailed(n, i)
        PROVE  [Ledger!LedgerNext]_Books
    BY <2>2, HandleKeepsLedger
  <2>3. ASSUME NEW p \in Payload, Publish(p) PROVE [Ledger!LedgerNext]_Books
    BY <2>3, PublishKeepsLedger
  <2>4. CASE UNCHANGED vars
    <3>1. UNCHANGED <<Book, Pending(tasks), Excused, reports>>
      BY <2>4, BookKept, ExcusedKept DEF vars, Pending
    <3> QED
      BY <3>1 DEF Books
  <2> QED
    BY <2>1, <2>2, <2>3, <2>4 DEF Next, Fault
<1> QED
  BY <1>1, <1>2, <1>3, <1>4, WorkerInvariant, PTL
     DEF Spec, ImplementsTasks, Ledger!LedgerSpec, Ledger!ledger, Books, Book

-----------------------------------------------------------------------------
\* Nothing is lost while nothing fails

\* A task that has been published has still to be read, or is in the hands of a
\* running coroutine, or is reported, or makes no sense, or was trimmed before
\* anyone read it; in particular what is pending is not forgotten.  Only a
\* failure of Redis or of a node leaves it in nobody's hands (worker.py:58-112).
NoTaskIsLost ==
  faults = 0 => \A i \in Ids(tasks) :
    \/ i > tasks.last
    \/ \E n \in Nodes : i \in InFlight(n)
    \/ Reported(i)
    \/ tasks.log[i] = Junk
    \/ i < tasks.first /\ Takers(i) = {}

\* Coroutines end by acknowledging what was reported or makes no sense, and
\* whatever was delivered got one.
EndsWell ==
  \A n \in Nodes, i \in Entries :
    /\ task[n][i] \notin {"failed", "lost"}
    /\ task[n][i] = "done" => tasks.log[i] = Junk \/ Reported(i)

Delivered == \A i \in 1..tasks.last : i < tasks.first \/ \E n \in Nodes : task[n][i] # "none"

KeptInv == faults = 0 => EndsWell /\ Delivered

\* What the steps without a failure have in common.
LEMMA KeptStep ==
  ASSUME WInv, KeptInv, faults = 0, LogKept,
         tasks.first \in Int, tasks'.first \in Int, tasks'.first >= tasks.first,
         tasks.last \in Int, tasks'.last \in Int,
         \A i \in Entries : Reported(i) => Reported(i)',
         \A n \in Nodes, i \in Entries :
           /\ task'[n][i] \in {"failed", "lost"} => task[n][i] \in {"failed", "lost"}
           /\ task'[n][i] = "done" => task[n][i] \in {"ack", "done"},
         \A n \in Nodes, i \in 1..tasks.last : task[n][i] # "none" => task'[n][i] # "none",
         \A i \in 1..tasks'.last :
           i <= tasks.last \/ i < tasks.first \/ \E n \in Nodes : task'[n][i] # "none"
  PROVE  KeptInv'
<1>1. EndsWell'
  <2> SUFFICES ASSUME NEW n \in Nodes, NEW i \in Entries
               PROVE  /\ task'[n][i] \notin {"failed", "lost"}
                      /\ task'[n][i] = "done" => tasks'.log[i] = Junk \/ Reported(i)'
    BY DEF EndsWell
  <2>1. task'[n][i] \notin {"failed", "lost"}
    BY DEF KeptInv, EndsWell
  <2>2. ASSUME task'[n][i] = "done" PROVE tasks'.log[i] = Junk \/ Reported(i)'
    <3>1. task[n][i] \in {"ack", "done"}
      BY <2>2
    <3>2. tasks.log[i] = Junk \/ Reported(i)
      BY <3>1 DEF KeptInv, EndsWell, WInv, AckInv
    <3>3. i \in Ids(tasks)
      BY <3>1, HandledInLog DEF WInv
    <3> QED
      BY <3>2, <3>3 DEF LogKept
  <2> QED
    BY <2>1, <2>2
<1>2. Delivered'
  <2> SUFFICES ASSUME NEW i \in 1..tasks'.last
               PROVE  i < tasks'.first \/ \E n \in Nodes : task'[n][i] # "none"
    BY DEF Delivered
  <2>1. CASE i <= tasks.last
    <3>1. i \in 1..tasks.last
      BY <2>1
    <3>2. i < tasks.first \/ \E n \in Nodes : task[n][i] # "none"
      BY <3>1 DEF KeptInv, Delivered
    <3> QED
      BY <3>1, <3>2
  <2>2. CASE ~(i <= tasks.last)
    BY <2>2
  <2> QED
    BY <2>1, <2>2
<1> QED
  BY <1>1, <1>2 DEF KeptInv

LEMMA KeptNext == WInv /\ LogBounded /\ KeptInv /\ [Next]_vars => KeptInv'
<1> SUFFICES ASSUME WInv, LogBounded, KeptInv, [Next]_vars, faults' = 0 PROVE KeptInv'
  BY DEF KeptInv
<1>t. /\ IsStream(tasks, Payload, Nodes) /\ faults \in Nat
      /\ task \in [Nodes -> [Entries -> Phases]]
  BY BoundsAssumption DEF WInv, TypeOK
<1>i. tasks.first \in Int /\ tasks.last \in Int /\ 1..tasks.last \subseteq Entries
  <2>1. tasks.first \in 1..Len(tasks.log) + 1 /\ tasks.last \in 0..Len(tasks.log)
        /\ Len(tasks.log) \in Nat
    BY <1>t DEF IsStream
  <2> QED
    BY <2>1, BoundsAssumption DEF LogBounded, Entries
<1>f. ~Faulty
  BY <1>t DEF Faulty
<1>0. CASE UNCHANGED <<tasks, task, reports, faults>>
  BY <1>i, <1>0, KeptStep DEF LogKept, Reported
<1>1. ASSUME NEW n \in Nodes, ReadTasks(n) PROVE KeptInv'
  <2> DEFINE new == NewIds(tasks, Concurrency)
  <2>1. /\ tasks'.log = tasks.log /\ tasks'.first = tasks.first
        /\ tasks'.last = NewUpTo(tasks, Concurrency)
        /\ reports' = reports /\ faults' = faults
    BY <1>1 DEF ReadTasks, XReadGroup
  <2>2. /\ \A i \in Entries : task'[n][i] = IF i \in new THEN "queued" ELSE task[n][i]
        /\ \A m \in Nodes \ {n} : task'[m] = task[m]
    BY <1>t, <1>1 DEF ReadTasks, Spawn
  <2>3. tasks'.last \in Int /\ 1..tasks'.last \subseteq Entries
    <3>1. IsStream(tasks', Payload, Nodes)
      BY <1>t, <1>1, XReadGroupKeeps, CheckerAssumption DEF ReadTasks
    <3>2. tasks'.last \in 0..Len(tasks.log) /\ Len(tasks.log) \in Nat
      BY <1>t, <2>1, <3>1 DEF IsStream
    <3> QED
      BY <3>2, BoundsAssumption DEF LogBounded, Entries
  <2>4. ASSUME NEW i \in 1..tasks'.last
        PROVE  i <= tasks.last \/ i < tasks.first \/ i \in new
    BY <1>i, <2>1, <2>3 DEF NewIds, NewFrom
  <2> HIDE DEF new
  <2>5. \A i \in 1..tasks'.last :
          i <= tasks.last \/ i < tasks.first \/ \E m \in Nodes : task'[m][i] # "none"
    BY <2>2, <2>3, <2>4
  <2>6. LogKept /\ \A i \in Entries : Reported(i) => Reported(i)'
    BY <2>1 DEF LogKept, Reported
  <2>7. \A m \in Nodes, i \in Entries :
          /\ task'[m][i] \in {"failed", "lost"} => task[m][i] \in {"failed", "lost"}
          /\ task'[m][i] = "done" => task[m][i] \in {"ack", "done"}
          /\ task[m][i] # "none" => task'[m][i] # "none"
    BY <2>2
  <2> QED
    BY <1>i, <2>1, <2>3, <2>5, <2>6, <2>7, KeptStep
<1>2. ASSUME NEW n \in Nodes, Start(n) PROVE KeptInv'
  <2>1. PICK idle \in SUBSET Pending(tasks) : tasks' = XAutoClaim(tasks, n, idle)
    BY <1>2 DEF Start
  <2>2. tasks'.log = tasks.log /\ tasks'.first = tasks.first /\ tasks'.last = tasks.last
    BY <1>t, <2>1, XAutoClaimKeeps
  <2>3. task' = task /\ reports' = reports /\ faults' = faults
    BY <1>2 DEF Start
  <2> QED
    BY <1>i, <2>2, <2>3, KeptStep DEF LogKept, Reported
<1>3. ASSUME NEW n \in Nodes, NEW i \in Entries, Handle(n, i) PROVE KeptInv'
  <2>1. \/ \E phase \in {"probe", "report", "ack"} : Move(n, i, phase)
        \/ Move(n, i, "done") /\ task[n][i] = "ack"
    <3>1. CASE Begin(n, i)
      BY <3>1 DEF Begin
    <3> QED
      BY <1>3, <3>1 DEF Handle, Probe, Report, Ack
  <2>2. \A m \in Nodes, j \in Entries :
          /\ task'[m][j] \in {"failed", "lost"} => task[m][j] \in {"failed", "lost"}
          /\ task'[m][j] = "done" => task[m][j] \in {"ack", "done"}
          /\ task[m][j] # "none" => task'[m][j] # "none"
    BY <1>t, <2>1 DEF Move
  <2>3. tasks'.log = tasks.log /\ tasks'.first = tasks.first /\ tasks'.last = tasks.last
        /\ faults' = faults
    BY <1>t, <1>3, XAckKeeps DEF Handle, Begin, Probe, Report, Ack
  <2>4. \A j \in Entries : Reported(j) => Reported(j)'
    <3>1. reports \in Seq([entry : Entries, node : Nodes])
      BY DEF WInv, TypeOK
    <3>2. reports' = reports \/ reports' = Append(reports, [entry |-> i, node |-> n])
      BY <1>3 DEF Handle, Begin, Probe, Report, Ack, Added
    <3>3. \A k \in DOMAIN reports : k \in DOMAIN reports' /\ reports'[k] = reports[k]
      BY <3>1, <3>2
    <3> QED
      BY <3>3 DEF Reported
  <2> QED
    BY <1>i, <2>2, <2>3, <2>4, KeptStep DEF LogKept
<1>4. ASSUME NEW p \in Payload, Publish(p) PROVE KeptInv'
  <2>1. /\ tasks'.last = tasks.last /\ tasks'.first >= tasks.first /\ LogKept
        /\ IsStream(tasks', Payload, Nodes)
    BY <1>t, <1>4, XAddKeeps, CheckerAssumption DEF Publish, LogKept
  <2>2. tasks'.first \in Int
    BY <2>1 DEF IsStream
  <2>3. task' = task /\ reports' = reports /\ faults' = faults
    BY <1>4 DEF Publish
  <2> QED
    BY <1>i, <2>1, <2>2, <2>3, KeptStep DEF Reported
<1> QED
  BY <1>f, <1>0, <1>1, <1>2, <1>3, <1>4
     DEF Next, Loop, LoopTop, ReadNothing, Drained, Signal, Fault, ReadFailed, ReportFailed,
         AckFailed, Crash, vars

\* As long as nothing fails no task is lost, through stops, restarts, claims
\* and trimming, for any number of nodes, tasks and slots.
THEOREM TasksAreKept == Spec => []NoTaskIsLost
<1>1. Init => LogBounded /\ KeptInv
  BY BoundsAssumption DEF Init, LogBounded, EmptyStream, KeptInv, EndsWell, Delivered
<1>2. WInv /\ LogBounded /\ [Next]_vars => LogBounded'
  BY LogBoundedNext DEF WInv
<1>3. WInv /\ LogBounded /\ KeptInv => NoTaskIsLost
  <2> SUFFICES ASSUME WInv, LogBounded, KeptInv, faults = 0, NEW i \in Ids(tasks),
                      i <= tasks.last, tasks.log[i] # Junk, ~Reported(i)
               PROVE  \/ \E n \in Nodes : i \in InFlight(n)
                      \/ i < tasks.first /\ Takers(i) = {}
    <3>1. ASSUME WInv PROVE tasks.last \in Int /\ \A i \in Ids(tasks) : i \in Int
      <4>1. tasks.last \in 0..Len(tasks.log) /\ Len(tasks.log) \in Nat
        BY <3>1 DEF WInv, TypeOK, IsStream
      <4> QED
        BY <4>1 DEF Ids
    <3> QED
      BY <3>1 DEF NoTaskIsLost
  <2>1. i \in Entries /\ i \in 1..tasks.last
    BY IdsAreEntries DEF WInv, TypeOK, IsStream, Ids
  <2>2. ASSUME NEW n \in Nodes, task[n][i] # "none" PROVE i \in InFlight(n)
    <3>1. task[n][i] \in Phases \ {"none", "failed", "lost", "done"}
      BY <2>1, <2>2 DEF KeptInv, EndsWell, WInv, TypeOK
    <3> QED
      BY <2>1, <3>1 DEF Phases, InFlight, Slots
  <2>3. i < tasks.first \/ \E n \in Nodes : task[n][i] # "none"
    BY <2>1 DEF KeptInv, Delivered
  <2> QED
    BY <2>2, <2>3 DEF Takers
<1> QED
  BY <1>1, <1>2, <1>3, KeptNext, WorkerInvariant, PTL DEF Spec

=============================================================================
