--------------------------- MODULE SchedulerProofs ----------------------------
(***************************************************************************)
(* Proofs about Scheduler, for every number of services, processes,         *)
(* changes and failures and for all intervals and lags: types, that a       *)
(* process does not check a service more often than its interval allows,    *)
(* that a round names one check, and that one sync is enough to follow the  *)
(* services.                                                                *)
(***************************************************************************)
EXTENDS Scheduler, TLAPS

\* The part of TypeOK that says what jobs are.
JobsOK ==
  /\ jobs = [p \in Processes |-> jobs[p]]
  /\ \A p \in Processes :
       DOMAIN jobs[p] \subseteq Services /\ jobs[p] \in [DOMAIN jobs[p] -> Job]

-----------------------------------------------------------------------------
\* Data

LEMMA EveryType ==
  ASSUME NEW i \in Intervals
  PROVE  Every(i) \in Nat \ {0}
BY TimeAssumption DEF Every

LEMMA NothingType ==
  ASSUME NEW T
  PROVE  Nothing \in Partly(T)
<1>1. Nothing \in [{} -> T] /\ {} \in SUBSET Services
  BY DEF Nothing
<1> QED
  BY <1>1 DEF Partly

LEMMA IdleType ==
  Idle \in [at : {"idle", "select", "apply"}, first : BOOLEAN, seen : Partly(Row)]
BY NothingType DEF Idle

\* A trigger with the interval of a row.
LEMMA Intervaled ==
  ASSUME NEW r \in Row, NEW delay \in 0..Jitter
  PROVE  /\ r.url \in Urls /\ r.interval \in Intervals /\ Every(r.interval) \in Nat
         /\ Every(r.interval) + delay \in Int
         /\ Every(r.interval) + delay >= Every(r.interval)
<1>1. r.url \in Urls /\ r.interval \in Intervals /\ Every(r.interval) \in Nat
  BY EveryType DEF Row
<1> QED
  BY <1>1, TimeAssumption

\* A job that is added has an interval to wait.
LEMMA AddedJob ==
  ASSUME NEW r \in Row, NEW delay \in 0..Jitter
  PROVE  NewJob(r, delay) \in Job /\ NewJob(r, delay).left >= NewJob(r, delay).every
BY Intervaled DEF NewJob, Job

\* So has one that is given a new trigger.
LEMMA RescheduledJob ==
  ASSUME NEW r \in Row, NEW delay \in 0..Jitter, NEW j \in Job
  PROVE  /\ Rescheduled(j, r, delay) \in Job
         /\ \/ Rescheduled(j, r, delay) = j
            \/ Rescheduled(j, r, delay).left >= Rescheduled(j, r, delay).every
<1>1. CASE j.every = r.interval
  BY <1>1 DEF Rescheduled
<1>2. CASE j.every # r.interval
  <2>1. Rescheduled(j, r, delay) = [j EXCEPT !.every = Every(r.interval),
                                             !.left = Every(r.interval) + delay]
    BY <1>2 DEF Rescheduled
  <2> QED
    BY Intervaled, <2>1 DEF Job
<1> QED
  BY <1>1, <1>2

\* After a run a job waits an interval, counted from the run time served.
LEMMA NextRun ==
  ASSUME NEW j \in Job, NEW t \in RunTimes(j)
  PROVE  /\ t[1] \in Int /\ t[2] \in Int
         /\ t[1] >= j.left
         /\ t[2] >= t[1] + j.every
<1>1. j.every \in Nat /\ j.left \in Int
  BY EveryType DEF Job
<1>2. t \in (j.left .. 0) \X (1 .. j.every + Jitter) /\ t[2] - t[1] \in j.every .. j.every + Jitter
  BY DEF RunTimes
<1> QED
  BY <1>1, <1>2, TimeAssumption

-----------------------------------------------------------------------------
\* Type correctness

\* The jobs of one process are replaced.
LEMMA JobsOfOne ==
  ASSUME JobsOK, NEW p \in Processes, NEW S \in SUBSET Services, NEW f \in [S -> Job],
         jobs' = [jobs EXCEPT ![p] = f]
  PROVE  /\ JobsOK'
         /\ jobs'[p] = f
         /\ \A q \in Processes : q # p => jobs'[q] = jobs[q]
<1>1. jobs' = [q \in Processes |-> IF q = p THEN f ELSE jobs[q]]
  BY DEF JobsOK
<1>2. jobs'[p] = f /\ \A q \in Processes : q # p => jobs'[q] = jobs[q]
  BY <1>1
<1>3. jobs' = [q \in Processes |-> jobs'[q]]
  BY <1>1
<1>4. ASSUME NEW q \in Processes
      PROVE  DOMAIN jobs'[q] \subseteq Services /\ jobs'[q] \in [DOMAIN jobs'[q] -> Job]
  <2>1. CASE q = p
    BY <1>2, <2>1
  <2>2. CASE q # p
    BY <1>2, <2>2 DEF JobsOK
  <2> QED
    BY <2>1, <2>2
<1> QED
  BY <1>2, <1>3, <1>4 DEF JobsOK

\* The job of one service changes its left only.
LEMMA LeftChange ==
  ASSUME JobsOK, NEW p \in Processes, NEW s \in Services, s \in DOMAIN jobs[p],
         NEW next \in Int, Due(p, s, next)
  PROVE  /\ JobsOK'
         /\ \A q \in Processes : q # p => jobs'[q] = jobs[q]
         /\ DOMAIN jobs'[p] = DOMAIN jobs[p]
         /\ \A u \in DOMAIN jobs[p] : u # s => jobs'[p][u] = jobs[p][u]
         /\ jobs'[p][s].left = next
         /\ jobs'[p][s].every = jobs[p][s].every
<1> DEFINE f == [jobs[p] EXCEPT ![s] = [jobs[p][s] EXCEPT !.left = next]]
<1>1. jobs[p][s] \in Job
  BY DEF JobsOK
<1>2. /\ [jobs[p][s] EXCEPT !.left = next] \in Job
      /\ [jobs[p][s] EXCEPT !.left = next].left = next
      /\ [jobs[p][s] EXCEPT !.left = next].every = jobs[p][s].every
  BY <1>1 DEF Job
<1>3. DOMAIN jobs[p] \in SUBSET Services /\ jobs[p] \in [DOMAIN jobs[p] -> Job]
  BY DEF JobsOK
<1>4. /\ f \in [DOMAIN jobs[p] -> Job]
      /\ f[s] = [jobs[p][s] EXCEPT !.left = next]
      /\ \A u \in DOMAIN jobs[p] : u # s => f[u] = jobs[p][u]
  BY <1>2, <1>3
<1>5. jobs' = [jobs EXCEPT ![p] = f]
  BY DEF Due
<1> HIDE DEF f
<1>6. /\ JobsOK'
      /\ jobs'[p] = f
      /\ \A q \in Processes : q # p => jobs'[q] = jobs[q]
  BY <1>3, <1>4, <1>5, JobsOfOne
<1> QED
  BY <1>2, <1>4, <1>6

\* What the update of the jobs does to each of them.
LEMMA ApplyJobs ==
  ASSUME TypeOK, NEW p \in Processes, SyncApply(p)
  PROVE  /\ JobsOK'
         /\ \A q \in Processes : q # p => jobs'[q] = jobs[q]
         /\ \A s \in DOMAIN jobs'[p] :
              \/ s \in DOMAIN jobs[p] /\ jobs'[p][s] = jobs[p][s]
              \/ jobs'[p][s].left >= jobs'[p][s].every
<1>1. PICK delay \in [Services -> 0..Jitter] :
        jobs' = [jobs EXCEPT ![p] =
          [s \in DOMAIN sync[p].seen |->
             IF s \in DOMAIN jobs[p] THEN Rescheduled(jobs[p][s], sync[p].seen[s], delay[s])
             ELSE NewJob(sync[p].seen[s], delay[s])]]
  BY DEF SyncApply
<1>2. PICK S \in SUBSET Services : sync[p].seen \in [S -> Row]
  <2>1. sync[p].seen \in Partly(Row)
    BY DEF TypeOK
  <2> QED
    BY <2>1 DEF Partly
<1> DEFINE f == [s \in S |->
             IF s \in DOMAIN jobs[p] THEN Rescheduled(jobs[p][s], sync[p].seen[s], delay[s])
             ELSE NewJob(sync[p].seen[s], delay[s])]
<1>3. jobs' = [jobs EXCEPT ![p] = f]
  <2>1. DOMAIN sync[p].seen = S
    BY <1>2
  <2> QED
    BY <1>1, <2>1
<1>4. ASSUME NEW s \in S
      PROVE  /\ f[s] \in Job
             /\ \/ s \in DOMAIN jobs[p] /\ f[s] = jobs[p][s]
                \/ f[s].left >= f[s].every
  <2>1. sync[p].seen[s] \in Row /\ delay[s] \in 0..Jitter
    BY <1>2
  <2>2. CASE s \in DOMAIN jobs[p]
    <3>1. jobs[p][s] \in Job
      BY <2>2 DEF TypeOK
    <3>2. f[s] = Rescheduled(jobs[p][s], sync[p].seen[s], delay[s])
      BY <2>2
    <3> QED
      BY <2>1, <2>2, <3>1, <3>2, RescheduledJob
  <2>3. CASE s \notin DOMAIN jobs[p]
    <3>1. f[s] = NewJob(sync[p].seen[s], delay[s])
      BY <2>3
    <3> QED
      BY <2>1, <3>1, AddedJob
  <2> QED
    BY <2>2, <2>3
<1>5. f \in [S -> Job] /\ JobsOK
  <2>1. \A s \in S : f[s] \in Job
    BY <1>4
  <2> QED
    BY <2>1 DEF TypeOK, JobsOK
<1> HIDE DEF f
<1>6. JobsOK' /\ jobs'[p] = f /\ \A q \in Processes : q # p => jobs'[q] = jobs[q]
  BY <1>3, <1>5, JobsOfOne
<1> QED
  BY <1>4, <1>5, <1>6

\* A tick takes one from the time left of every job.
LEMMA TickJobs ==
  ASSUME JobsOK, Tick
  PROVE  /\ JobsOK'
         /\ \A p \in Processes : DOMAIN jobs'[p] = DOMAIN jobs[p]
         /\ \A p \in Processes : \A s \in DOMAIN jobs[p] :
              /\ jobs'[p][s].left = jobs[p][s].left - 1
              /\ jobs'[p][s].every = jobs[p][s].every
<1>1. jobs' = [p \in Processes |->
        [s \in DOMAIN jobs[p] |-> [jobs[p][s] EXCEPT !.left = @ - 1]]]
  BY DEF Tick
<1>2. ASSUME NEW p \in Processes, NEW s \in DOMAIN jobs[p]
      PROVE  /\ [jobs[p][s] EXCEPT !.left = @ - 1] \in Job
             /\ [jobs[p][s] EXCEPT !.left = @ - 1].left = jobs[p][s].left - 1
             /\ [jobs[p][s] EXCEPT !.left = @ - 1].every = jobs[p][s].every
  <2>1. jobs[p][s] \in Job
    BY DEF JobsOK
  <2> QED
    BY <2>1 DEF Job
<1>3. JobsOK'
  BY <1>1, <1>2 DEF JobsOK
<1> QED
  BY <1>1, <1>2, <1>3

\* What an action leaves alone keeps its type.
LEMMA GoneTypes ==
  ASSUME TypeOK, NEW p \in Processes, Gone(p)
  PROVE  /\ JobsOK'
         /\ up' \in SUBSET Processes
         /\ sync' \in [Processes ->
              [at : {"idle", "select", "apply"}, first : BOOLEAN, seen : Partly(Row)]]
         /\ syncLeft' \in [Processes -> Int]
         /\ sending' \in [Processes -> SUBSET Services]
         /\ \A q \in Processes \ up' : jobs'[q] = Nothing /\ sync'[q] = Idle
<1>1. Nothing \in [{} -> Job] /\ {} \in SUBSET Services
  BY DEF Nothing
<1>2. JobsOK
  BY DEF TypeOK, JobsOK
<1>3. JobsOK' /\ jobs'[p] = Nothing /\ \A q \in Processes : q # p => jobs'[q] = jobs[q]
  BY <1>1, <1>2, JobsOfOne DEF Gone
<1>4. sync'[p] = Idle /\ \A q \in Processes : q # p => sync'[q] = sync[q]
  BY DEF Gone, TypeOK
<1>5. \A q \in Processes \ up' : q # p => q \notin up
  BY DEF Gone
<1>6. \A q \in Processes \ up' : jobs'[q] = Nothing /\ sync'[q] = Idle
  BY <1>3, <1>4, <1>5 DEF TypeOK
<1>7. sync' \in [Processes ->
        [at : {"idle", "select", "apply"}, first : BOOLEAN, seen : Partly(Row)]]
  BY IdleType DEF Gone, TypeOK
<1> QED
  BY <1>3, <1>6, <1>7, TimeAssumption DEF Gone, TypeOK

LEMMA InitTypes == Init => TypeOK
<1> SUFFICES ASSUME Init PROVE TypeOK
  OBVIOUS
<1>1. \E r \in Row : r.state = "new"
  <2>1. PICK u \in Urls, i \in Intervals : TRUE
    BY TimeAssumption
  <2>2. [url |-> u, interval |-> i, state |-> "new"] \in Row
    BY DEF Row
  <2> QED
    BY <2>2
<1>2. row \in [Services -> Row]
  BY <1>1 DEF Init
<1>3. Nothing \in [DOMAIN Nothing -> Job] /\ DOMAIN Nothing \subseteq Services
  BY DEF Nothing
<1>4. /\ jobs = [p \in Processes |-> jobs[p]]
      /\ \A p \in Processes :
           DOMAIN jobs[p] \subseteq Services /\ jobs[p] \in [DOMAIN jobs[p] -> Job]
  BY <1>3 DEF Init
<1>5. sync \in [Processes ->
        [at : {"idle", "select", "apply"}, first : BOOLEAN, seen : Partly(Row)]]
  BY IdleType DEF Init
<1>6. /\ syncLeft \in [Processes -> Int] /\ ago \in [Processes -> [Services -> 0..Long]]
      /\ clock \in 0 .. Cycle - 1 /\ changes \in 0..MaxChanges /\ faults \in 0..MaxFaults
  BY TimeAssumption, BoundsAssumption DEF Init
<1> QED
  BY <1>2, <1>4, <1>5, <1>6 DEF Init, TypeOK

LEMMA StepTypes == TypeOK /\ [Next]_vars => TypeOK'
<1> SUFFICES ASSUME TypeOK, [Next]_vars PROVE TypeOK'
  OBVIOUS
<1> USE DEF api
<1>0. JobsOK
  BY DEF TypeOK, JobsOK
<1>1. ASSUME NEW s \in Services, Api(s) PROVE TypeOK'
  <2>1. row' \in [Services -> Row]
    <3>1. CASE CreateService(s)
      BY <3>1 DEF CreateService, TypeOK, Row
    <3>2. CASE UpdateService(s)
      BY <3>2 DEF UpdateService, TypeOK
    <3>3. CASE DeleteService(s)
      BY <3>3 DEF DeleteService, TypeOK, Row
    <3> QED
      BY <1>1, <3>1, <3>2, <3>3 DEF Api
  <2>2. Edit
    BY <1>1 DEF Api, CreateService, UpdateService, DeleteService
  <2>3. changes' \in 0..MaxChanges
    BY <2>2, BoundsAssumption DEF Edit, TypeOK
  <2> QED
    BY <2>1, <2>2, <2>3 DEF Edit, TypeOK
<1>2. ASSUME NEW p \in Processes, Start(p) PROVE TypeOK'
  <2>1. sync' \in [Processes ->
          [at : {"idle", "select", "apply"}, first : BOOLEAN, seen : Partly(Row)]]
    BY <1>2, NothingType DEF Start, TypeOK
  <2>2. \A q \in Processes \ up' : q # p /\ q \notin up
    BY <1>2 DEF Start
  <2>3. \A q \in Processes \ up' : jobs'[q] = Nothing /\ sync'[q] = Idle
    BY <1>2, <2>2 DEF Start, TypeOK
  <2> QED
    BY <1>2, <2>1, <2>3 DEF Start, TypeOK
<1>3. ASSUME NEW p \in Processes, SyncDue(p) PROVE TypeOK'
  <2>1. sync' \in [Processes ->
          [at : {"idle", "select", "apply"}, first : BOOLEAN, seen : Partly(Row)]]
    BY <1>3 DEF SyncDue, TypeOK
  <2>2. syncLeft' \in [Processes -> Int]
    BY <1>3, TimeAssumption DEF SyncDue, TypeOK
  <2>3. \A q \in Processes \ up' : jobs'[q] = Nothing /\ sync'[q] = Idle
    BY <1>3 DEF SyncDue, TypeOK
  <2> QED
    BY <1>3, <2>1, <2>2, <2>3 DEF SyncDue, TypeOK
<1>4. ASSUME NEW p \in Processes, SyncSelect(p) PROVE TypeOK'
  <2>1. [s \in ActiveServices |-> row[s]] \in Partly(Row)
    <3>1. ActiveServices \in SUBSET Services
      BY DEF ActiveServices
    <3>2. [s \in ActiveServices |-> row[s]] \in [ActiveServices -> Row]
      BY <3>1 DEF TypeOK
    <3> QED
      BY <3>1, <3>2 DEF Partly
  <2> DEFINE seen == [s \in ActiveServices |-> row[s]]
  <2>2. sync' = [sync EXCEPT ![p] = [sync[p] EXCEPT !.at = "apply", !.seen = seen]]
    BY <1>4 DEF SyncSelect, TypeOK
  <2>a. seen \in Partly(Row)
    BY <2>1
  <2>b. sync[p] \in [at : {"idle", "select", "apply"}, first : BOOLEAN, seen : Partly(Row)]
    BY DEF TypeOK
  <2> HIDE DEF seen
  <2>3. [sync[p] EXCEPT !.at = "apply", !.seen = seen]
          \in [at : {"idle", "select", "apply"}, first : BOOLEAN, seen : Partly(Row)]
    BY <2>a, <2>b
  <2>4. sync' \in [Processes ->
          [at : {"idle", "select", "apply"}, first : BOOLEAN, seen : Partly(Row)]]
    BY <2>2, <2>3 DEF TypeOK
  <2>5. p \in up /\ \A q \in Processes : q # p => sync'[q] = sync[q]
    BY <1>4, <2>2 DEF SyncSelect, TypeOK, Idle
  <2> QED
    BY <1>4, <2>4, <2>5 DEF SyncSelect, TypeOK
<1>5. ASSUME NEW p \in Processes, SyncApply(p) PROVE TypeOK'
  <2>1. JobsOK' /\ \A q \in Processes : q # p => jobs'[q] = jobs[q]
    BY <1>5, ApplyJobs
  <2>2. sync' \in [Processes ->
          [at : {"idle", "select", "apply"}, first : BOOLEAN, seen : Partly(Row)]]
    BY <1>5, IdleType DEF SyncApply, TypeOK
  <2>3. p \in up /\ \A q \in Processes : q # p => sync'[q] = sync[q]
    BY <1>5 DEF SyncApply, TypeOK, Idle
  <2> QED
    BY <1>5, <2>1, <2>2, <2>3 DEF SyncApply, TypeOK, JobsOK
<1>6. ASSUME NEW p \in Processes, SyncFailed(p) PROVE TypeOK'
  <2>1. faults' \in 0..MaxFaults
    BY <1>6, BoundsAssumption DEF SyncFailed, Faulty, TypeOK
  <2>2. CASE sync[p].first
    <3>1. Gone(p)
      BY <1>6, <2>2 DEF SyncFailed
    <3> QED
      BY <1>6, <2>1, <3>1, GoneTypes DEF SyncFailed, TypeOK, JobsOK
  <2>3. CASE ~sync[p].first
    <3>1. sync' = [sync EXCEPT ![p] = Idle] /\ UNCHANGED <<up, jobs, syncLeft, sending>>
      BY <1>6, <2>3 DEF SyncFailed
    <3>2. sync' \in [Processes ->
            [at : {"idle", "select", "apply"}, first : BOOLEAN, seen : Partly(Row)]]
      BY <3>1, IdleType DEF TypeOK
    <3>3. \A q \in Processes : sync'[q] = Idle \/ sync'[q] = sync[q]
      BY <3>1 DEF TypeOK
    <3> QED
      BY <1>6, <2>1, <3>1, <3>2, <3>3 DEF SyncFailed, TypeOK
  <2> QED
    BY <2>2, <2>3
<1>7. ASSUME NEW p \in Processes, Exit(p) PROVE TypeOK'
  <2>1. faults' \in 0..MaxFaults
    BY <1>7, BoundsAssumption DEF Exit, Faulty, TypeOK
  <2> QED
    BY <1>7, <2>1, GoneTypes DEF Exit, TypeOK, JobsOK
<1>8. ASSUME NEW p \in Processes, NEW s \in Services, Check(p, s) PROVE TypeOK'
  <2>1. PICK t \in RunTimes(jobs[p][s]) : s \in DOMAIN jobs[p] /\ Due(p, s, t[2])
    BY <1>8 DEF Check, Enqueue, Skip
  <2>2. jobs[p][s] \in Job
    BY <2>1 DEF TypeOK
  <2>3. JobsOK' /\ \A q \in Processes : q # p => jobs'[q] = jobs[q]
    BY <1>0, <2>1, <2>2, NextRun, LeftChange
  <2>4. p \in up
    BY <2>1 DEF TypeOK, Nothing
  <2>5. sending' \in [Processes -> SUBSET Services] /\ ago' \in [Processes -> [Services -> 0..Long]]
    <3>1. \/ UNCHANGED <<sending, ago>>
          \/ /\ sending' = [sending EXCEPT ![p] = @ \cup {s}]
             /\ ago' = [ago EXCEPT ![p][s] = 0]
      BY <1>8 DEF Check, Enqueue, Skip
    <3>2. ASSUME ago' = [ago EXCEPT ![p][s] = 0]
          PROVE  ago' \in [Processes -> [Services -> 0..Long]]
      <4>1. 0 \in 0..Long /\ ago[p] \in [Services -> 0..Long]
        BY TimeAssumption DEF TypeOK
      <4>2. [ago[p] EXCEPT ![s] = 0] \in [Services -> 0..Long]
        BY <4>1
      <4> QED
        BY <3>2, <4>2 DEF TypeOK
    <3>3. ASSUME sending' = [sending EXCEPT ![p] = @ \cup {s}]
          PROVE  sending' \in [Processes -> SUBSET Services]
      BY <3>3 DEF TypeOK
    <3>4. CASE UNCHANGED <<sending, ago>>
      BY <3>4 DEF TypeOK
    <3> QED
      BY <3>1, <3>2, <3>3, <3>4
  <2> QED
    BY <2>1, <2>3, <2>4, <2>5 DEF Due, TypeOK, JobsOK
<1>9. ASSUME NEW p \in Processes, NEW s \in Services, Published(p, s) PROVE TypeOK'
  BY <1>9 DEF Published, TypeOK
<1>10. ASSUME Tick PROVE TypeOK'
  <2>1. JobsOK'
    BY <1>0, <1>10, TickJobs
  <2>2. faults' \in 0..MaxFaults
    BY <1>10, BoundsAssumption DEF Tick, Faulty, TypeOK
  <2>3. clock' \in 0 .. Cycle - 1
    BY <1>10, TimeAssumption DEF Tick, TypeOK
  <2>4. syncLeft' \in [Processes -> Int] /\ ago' \in [Processes -> [Services -> 0..Long]]
    BY <1>10, TimeAssumption DEF Tick, TypeOK
  <2>5. \A q \in Processes \ up : jobs'[q] = Nothing
    <3>1. \A q \in Processes : jobs'[q] = [s \in DOMAIN jobs[q] |-> [jobs[q][s] EXCEPT !.left = @ - 1]]
      BY <1>10 DEF Tick
    <3> QED
      BY <3>1 DEF TypeOK, Nothing
  <2> QED
    BY <1>10, <2>1, <2>2, <2>3, <2>4, <2>5 DEF Tick, TypeOK, JobsOK
<1>11. CASE UNCHANGED vars
  BY <1>11 DEF vars, TypeOK
<1> QED
  BY <1>1, <1>2, <1>3, <1>4, <1>5, <1>6, <1>7, <1>8, <1>9, <1>10, <1>11 DEF Next, Sync

\* Types: every reachable state of the scheduler is well formed, and a process
\* that has ended has no jobs and no sync under way.
THEOREM SchedulerTypes == Spec => []TypeOK
BY InitTypes, StepTypes, PTL DEF Spec

-----------------------------------------------------------------------------
\* Not too often

\* A job that keeps its interval, and loses no more time than has passed since
\* the last check, still keeps its distance from that check.
Spaced(p, s) == ago[p][s] + jobs[p][s].left >= jobs[p][s].every - Grace

LEMMA InitSpaced == Init => NotTooOften
<1> SUFFICES ASSUME Init PROVE NotTooOften
  OBVIOUS
<1>1. \A p \in Processes : DOMAIN jobs[p] = {}
  BY DEF Init, Nothing
<1> QED
  BY <1>1 DEF NotTooOften

LEMMA StepSpaced == TypeOK /\ NotTooOften /\ [Next]_vars => NotTooOften'
<1> SUFFICES ASSUME TypeOK, NotTooOften, [Next]_vars PROVE NotTooOften'
  OBVIOUS
<1> USE DEF api
<1>0. JobsOK
  BY DEF TypeOK, JobsOK
<1>a. \A q \in Processes : \A u \in DOMAIN jobs[q] :
        /\ u \in Services /\ ago[q][u] \in 0..Long
        /\ jobs[q][u] \in Job /\ jobs[q][u].left \in Int /\ jobs[q][u].every \in Nat
        /\ jobs[q][u].every + MaxLag <= Long
        /\ Spaced(q, u)
  <2> TAKE q \in Processes
  <2> TAKE u \in DOMAIN jobs[q]
  <2>1. u \in Services /\ jobs[q][u] \in Job
    BY DEF TypeOK
  <2>2. PICK i \in Intervals : jobs[q][u].every = Every(i)
    BY <2>1 DEF Job
  <2>3. jobs[q][u].every \in Nat /\ jobs[q][u].every + MaxLag <= Long
    BY <2>2, EveryType, TimeAssumption
  <2> QED
    BY <2>1, <2>3 DEF NotTooOften, Spaced, TypeOK, Job
<1>b. Grace \in Nat /\ MaxLag \in Nat /\ Long \in Nat /\ Grace <= MaxLag
  BY TimeAssumption
<1>1. ASSUME UNCHANGED <<jobs, ago>> PROVE NotTooOften'
  BY <1>1 DEF NotTooOften
<1>2. ASSUME NEW p \in Processes, Gone(p), UNCHANGED ago PROVE NotTooOften'
  <2>1. \A q \in Processes : q # p => jobs'[q] = jobs[q]
    BY <1>2 DEF Gone, TypeOK
  <2>2. DOMAIN jobs'[p] = {}
    BY <1>2 DEF Gone, TypeOK, Nothing
  <2> QED
    BY <1>2, <2>1, <2>2 DEF NotTooOften
<1>3. ASSUME NEW p \in Processes, SyncApply(p) PROVE NotTooOften'
  <2>1. /\ JobsOK'
        /\ \A q \in Processes : q # p => jobs'[q] = jobs[q]
        /\ \A s \in DOMAIN jobs'[p] :
             \/ s \in DOMAIN jobs[p] /\ jobs'[p][s] = jobs[p][s]
             \/ jobs'[p][s].left >= jobs'[p][s].every
    BY <1>3, ApplyJobs
  <2>2. UNCHANGED ago
    BY <1>3 DEF SyncApply
  <2>3. ASSUME NEW s \in DOMAIN jobs'[p], jobs'[p][s].left >= jobs'[p][s].every
        PROVE  Spaced(p, s)'
    <3>1. s \in Services /\ jobs'[p][s] \in Job
      BY <2>1 DEF JobsOK
    <3>2. jobs'[p][s].left \in Int /\ jobs'[p][s].every \in Nat /\ ago[p][s] \in 0..Long
      BY <3>1, EveryType DEF Job, TypeOK
    <3> QED
      BY <1>b, <2>2, <2>3, <3>2 DEF Spaced
  <2>4. ASSUME NEW q \in Processes, NEW s \in DOMAIN jobs'[q] PROVE Spaced(q, s)'
    BY <1>a, <2>1, <2>2, <2>3, <2>4 DEF Spaced
  <2> QED
    BY <2>4 DEF NotTooOften, Spaced
<1>4. ASSUME NEW p \in Processes, NEW s \in Services, Check(p, s) PROVE NotTooOften'
  <2>1. PICK t \in RunTimes(jobs[p][s]) :
          /\ s \in DOMAIN jobs[p]
          /\ Due(p, s, t[2])
          /\ \/ UNCHANGED ago
             \/ t[1] >= -Grace /\ ago' = [ago EXCEPT ![p][s] = 0]
    BY <1>4 DEF Check, Enqueue, Skip
  <2>2. /\ t[1] \in Int /\ t[2] \in Int
        /\ t[1] >= jobs[p][s].left
        /\ t[2] >= t[1] + jobs[p][s].every
    BY <1>a, <2>1, NextRun
  <2>3. /\ \A q \in Processes : q # p => jobs'[q] = jobs[q]
        /\ DOMAIN jobs'[p] = DOMAIN jobs[p]
        /\ \A u \in DOMAIN jobs[p] : u # s => jobs'[p][u] = jobs[p][u]
        /\ jobs'[p][s].left = t[2]
        /\ jobs'[p][s].every = jobs[p][s].every
    BY <1>0, <2>1, <2>2, LeftChange
  <2>4. /\ \A q \in Processes : q # p => ago'[q] = ago[q]
        /\ \A u \in Services : u # s => ago'[p][u] = ago[p][u]
        /\ ago'[p][s] = ago[p][s] \/ (t[1] >= -Grace /\ ago'[p][s] = 0)
    BY <2>1 DEF TypeOK
  <2>5. Spaced(p, s)'
    BY <1>a, <1>b, <2>1, <2>2, <2>3, <2>4 DEF Spaced
  <2>6. ASSUME NEW q \in Processes, NEW u \in DOMAIN jobs'[q], ~(q = p /\ u = s)
        PROVE  Spaced(q, u)'
    BY <1>a, <2>3, <2>4, <2>6 DEF Spaced
  <2> QED
    BY <2>5, <2>6 DEF NotTooOften, Spaced
<1>5. ASSUME Tick PROVE NotTooOften'
  <2>1. /\ \A p \in Processes : DOMAIN jobs'[p] = DOMAIN jobs[p]
        /\ \A p \in Processes : \A s \in DOMAIN jobs[p] :
             /\ jobs'[p][s].left = jobs[p][s].left - 1
             /\ jobs'[p][s].every = jobs[p][s].every
    BY <1>0, <1>5, TickJobs
  <2>2. ASSUME NEW p \in Processes, NEW s \in DOMAIN jobs[p] PROVE Spaced(p, s)'
    <3>1. ago'[p][s] = IF ago[p][s] < Long THEN ago[p][s] + 1 ELSE Long
      BY <1>a, <1>5 DEF Tick
    <3>2. jobs[p][s].left > -MaxLag
      BY <1>5, <1>a, <1>b DEF Tick, Overdue
    <3> QED
      BY <1>a, <1>b, <2>1, <3>1, <3>2 DEF Spaced
  <2> QED
    BY <2>1, <2>2 DEF NotTooOften, Spaced
<1>6. ASSUME NEW p \in Processes, SyncFailed(p) PROVE NotTooOften'
  <2>1. Gone(p) \/ UNCHANGED jobs
    BY <1>6 DEF SyncFailed
  <2> QED
    BY <1>1, <1>2, <1>6, <2>1 DEF SyncFailed
<1>7. ASSUME NEW s \in Services, Api(s) PROVE NotTooOften'
  BY <1>1, <1>7 DEF Api, CreateService, UpdateService, DeleteService, Edit
<1>8. ASSUME NEW p \in Processes, Start(p) \/ SyncDue(p) \/ SyncSelect(p) PROVE NotTooOften'
  BY <1>1, <1>8 DEF Start, SyncDue, SyncSelect
<1>9. ASSUME NEW p \in Processes, Exit(p) PROVE NotTooOften'
  BY <1>2, <1>9 DEF Exit
<1>10. ASSUME NEW p \in Processes, NEW s \in Services, Published(p, s) PROVE NotTooOften'
  BY <1>1, <1>10 DEF Published
<1>11. CASE UNCHANGED vars
  BY <1>1, <1>11 DEF vars
<1> QED
  BY <1>3, <1>4, <1>5, <1>6, <1>7, <1>8, <1>9, <1>10, <1>11 DEF Next, Sync

\* The next run time of a job is at least its interval, less the lateness of
\* the last run, after the last check of the service by that process: for all
\* intervals, jitters and lags, across updates, failed syncs and restarts.
THEOREM ChecksAreSpaced == Spec => []NotTooOften
<1>1. Init => TypeOK /\ NotTooOften
  BY InitTypes, InitSpaced
<1>2. TypeOK /\ NotTooOften /\ [Next]_vars => (TypeOK /\ NotTooOften)'
  BY StepTypes, StepSpaced
<1> QED
  BY <1>1, <1>2, PTL DEF Spec

-----------------------------------------------------------------------------
\* One check per round

\* While nothing has gone wrong no job is late, and what is missing of an
\* interval since the last check is still to be waited for.
OnTime(p, s) ==
  /\ jobs[p][s].left >= 0
  /\ ago[p][s] + jobs[p][s].left >= jobs[p][s].every

Punctual == faults = 0 => \A p \in Processes : \A s \in DOMAIN jobs[p] : OnTime(p, s)

LEMMA InitPunctual == Init => Punctual
<1> SUFFICES ASSUME Init PROVE Punctual
  OBVIOUS
<1>1. \A p \in Processes : DOMAIN jobs[p] = {}
  BY DEF Init, Nothing
<1> QED
  BY <1>1 DEF Punctual

LEMMA StepPunctual == TypeOK /\ Punctual /\ [Next]_vars => Punctual'
<1> SUFFICES ASSUME TypeOK, Punctual, [Next]_vars, faults' = 0
             PROVE  \A p \in Processes : \A s \in DOMAIN jobs'[p] : OnTime(p, s)'
  BY DEF Punctual, OnTime
<1> USE DEF api
<1>0. JobsOK /\ ~Faulty
  BY DEF TypeOK, JobsOK, Faulty
<1>a. faults = 0 => \A q \in Processes : \A u \in DOMAIN jobs[q] :
        /\ u \in Services /\ ago[q][u] \in 0..Long
        /\ jobs[q][u] \in Job /\ jobs[q][u].left \in Int /\ jobs[q][u].every \in Nat
        /\ jobs[q][u].every <= Long
        /\ OnTime(q, u)
  <2> SUFFICES ASSUME faults = 0, NEW q \in Processes, NEW u \in DOMAIN jobs[q]
               PROVE  /\ u \in Services /\ ago[q][u] \in 0..Long
                      /\ jobs[q][u] \in Job /\ jobs[q][u].left \in Int
                      /\ jobs[q][u].every \in Nat /\ jobs[q][u].every <= Long
                      /\ OnTime(q, u)
    OBVIOUS
  <2>1. u \in Services /\ jobs[q][u] \in Job
    BY DEF TypeOK
  <2>2. PICK i \in Intervals : jobs[q][u].every = Every(i)
    BY <2>1 DEF Job
  <2>3. jobs[q][u].every \in Nat /\ jobs[q][u].every <= Long
    BY <2>2, EveryType, TimeAssumption
  <2> QED
    BY <2>1, <2>3 DEF Punctual, TypeOK, Job
<1>1. ASSUME UNCHANGED <<jobs, ago, faults>>
      PROVE  \A q \in Processes : \A u \in DOMAIN jobs'[q] : OnTime(q, u)'
  BY <1>1 DEF Punctual, OnTime
<1>2. ASSUME NEW p \in Processes, SyncApply(p)
      PROVE  \A q \in Processes : \A u \in DOMAIN jobs'[q] : OnTime(q, u)'
  <2>1. /\ JobsOK'
        /\ \A q \in Processes : q # p => jobs'[q] = jobs[q]
        /\ \A s \in DOMAIN jobs'[p] :
             \/ s \in DOMAIN jobs[p] /\ jobs'[p][s] = jobs[p][s]
             \/ jobs'[p][s].left >= jobs'[p][s].every
    BY <1>2, ApplyJobs
  <2>2. UNCHANGED <<ago, faults>>
    BY <1>2 DEF SyncApply
  <2>3. ASSUME NEW s \in DOMAIN jobs'[p], jobs'[p][s].left >= jobs'[p][s].every
        PROVE  OnTime(p, s)'
    <3>1. s \in Services /\ jobs'[p][s] \in Job
      BY <2>1 DEF JobsOK
    <3>2. /\ jobs'[p][s].left \in Int /\ jobs'[p][s].every \in Nat
          /\ ago[p][s] \in 0..Long /\ Long \in Nat
      BY <3>1, EveryType, TimeAssumption DEF Job, TypeOK
    <3> QED
      BY <2>2, <2>3, <3>2 DEF OnTime
  <2> QED
    BY <1>a, <2>1, <2>2, <2>3 DEF OnTime
<1>3. ASSUME NEW p \in Processes, NEW s \in Services, Check(p, s)
      PROVE  \A q \in Processes : \A u \in DOMAIN jobs'[q] : OnTime(q, u)'
  <2>1. PICK t \in RunTimes(jobs[p][s]) :
          /\ s \in DOMAIN jobs[p]
          /\ Due(p, s, t[2])
          /\ UNCHANGED ago \/ ago' = [ago EXCEPT ![p][s] = 0]
    BY <1>3 DEF Check, Enqueue, Skip
  <2>2. faults = 0
    BY <2>1 DEF Due
  <2>3. /\ t[1] \in Int /\ t[2] \in Int
        /\ t[1] >= jobs[p][s].left
        /\ t[2] >= t[1] + jobs[p][s].every
    BY <1>a, <2>1, <2>2, NextRun
  <2>4. /\ \A q \in Processes : q # p => jobs'[q] = jobs[q]
        /\ DOMAIN jobs'[p] = DOMAIN jobs[p]
        /\ \A u \in DOMAIN jobs[p] : u # s => jobs'[p][u] = jobs[p][u]
        /\ jobs'[p][s].left = t[2]
        /\ jobs'[p][s].every = jobs[p][s].every
    BY <1>0, <2>1, <2>3, LeftChange
  <2>5. /\ \A q \in Processes : q # p => ago'[q] = ago[q]
        /\ \A u \in Services : u # s => ago'[p][u] = ago[p][u]
        /\ ago'[p][s] = ago[p][s] \/ ago'[p][s] = 0
    BY <2>1 DEF TypeOK
  <2>6. OnTime(p, s)'
    <3>1. /\ ago[p][s] \in 0..Long /\ Long \in Nat /\ jobs[p][s].left \in Int
          /\ jobs[p][s].every \in Nat /\ jobs[p][s].left >= 0
      BY <1>a, <2>1, <2>2, TimeAssumption DEF OnTime
    <3> QED
      BY <2>3, <2>4, <2>5, <3>1 DEF OnTime
  <2>7. ASSUME NEW q \in Processes, NEW u \in DOMAIN jobs'[q], ~(q = p /\ u = s)
        PROVE  OnTime(q, u)'
    BY <1>a, <2>2, <2>4, <2>5, <2>7 DEF OnTime
  <2> QED
    BY <2>6, <2>7
<1>4. ASSUME Tick
      PROVE  \A q \in Processes : \A u \in DOMAIN jobs'[q] : OnTime(q, u)'
  <2>1. /\ \A p \in Processes : DOMAIN jobs'[p] = DOMAIN jobs[p]
        /\ \A p \in Processes : \A s \in DOMAIN jobs[p] :
             /\ jobs'[p][s].left = jobs[p][s].left - 1
             /\ jobs'[p][s].every = jobs[p][s].every
    BY <1>0, <1>4, TickJobs
  <2>2. faults = 0 /\ \A p \in Processes : ~Overdue(p, 0)
    BY <1>0, <1>4 DEF Tick
  <2>3. ASSUME NEW p \in Processes, NEW s \in DOMAIN jobs[p] PROVE OnTime(p, s)'
    <3>1. ago'[p][s] = IF ago[p][s] < Long THEN ago[p][s] + 1 ELSE Long
      BY <1>a, <1>4, <2>2 DEF Tick
    <3>2. jobs[p][s].left > 0
      BY <1>a, <2>2 DEF Overdue
    <3>3. Long \in Nat
      BY TimeAssumption
    <3> QED
      BY <1>a, <2>1, <2>2, <3>1, <3>2, <3>3 DEF OnTime
  <2> QED
    BY <2>1, <2>3
<1>5. ASSUME NEW s \in Services, Api(s)
      PROVE  \A q \in Processes : \A u \in DOMAIN jobs'[q] : OnTime(q, u)'
  BY <1>1, <1>5 DEF Api, CreateService, UpdateService, DeleteService, Edit
<1>6. ASSUME NEW p \in Processes, Start(p) \/ SyncDue(p) \/ SyncSelect(p)
      PROVE  \A q \in Processes : \A u \in DOMAIN jobs'[q] : OnTime(q, u)'
  BY <1>1, <1>6 DEF Start, SyncDue, SyncSelect
<1>7. \A p \in Processes : ~SyncFailed(p) /\ ~Exit(p)
  BY <1>0 DEF SyncFailed, Exit
<1>8. ASSUME NEW p \in Processes, NEW s \in Services, Published(p, s)
      PROVE  \A q \in Processes : \A u \in DOMAIN jobs'[q] : OnTime(q, u)'
  BY <1>1, <1>8 DEF Published
<1>9. CASE UNCHANGED vars
  BY <1>1, <1>9 DEF vars
<1> QED
  BY <1>2, <1>3, <1>4, <1>5, <1>6, <1>7, <1>8, <1>9 DEF Next, Sync

\* What is added to sending is added by Enqueue, of a job that is due.
LEMMA StepStarts ==
  ASSUME TypeOK, Punctual, [Next]_vars, faults = 0,
         NEW p \in Processes, NEW s \in Services, s \in sending'[p] \ sending[p],
         jobs[p][s].step = jobs[p][s].every
  PROVE  ago[p][s] > clock % jobs[p][s].step
<1> USE DEF api
<1>1. PICK q \in Processes, u \in Services : Enqueue(q, u) /\ ~UNCHANGED sending
  <2>1. \A v \in Services : Api(v) => UNCHANGED sending
    BY DEF Api, CreateService, UpdateService, DeleteService, Edit
  <2>2. \A r \in Processes :
          Start(r) \/ SyncDue(r) \/ Sync(r) => UNCHANGED sending
    BY DEF Start, SyncDue, Sync, SyncSelect, SyncApply
  <2>3. \A r \in Processes : SyncFailed(r) \/ Exit(r) => sending'[p] \subseteq sending[p]
    BY DEF SyncFailed, Exit, Gone, TypeOK
  <2>4. \A r \in Processes, v \in Services : Published(r, v) => sending'[p] \subseteq sending[p]
    BY DEF Published, TypeOK
  <2>5. \A r \in Processes, v \in Services : Skip(r, v) => UNCHANGED sending
    BY DEF Skip
  <2>6. Tick \/ UNCHANGED vars => UNCHANGED sending
    BY DEF Tick, vars
  <2>7. ~(sending'[p] \subseteq sending[p]) /\ ~UNCHANGED sending
    OBVIOUS
  <2> QED
    BY <2>1, <2>2, <2>3, <2>4, <2>5, <2>6, <2>7 DEF Next, Check
<1>2. q = p /\ u = s /\ jobs[p][s].step # 0
  <2>1. jobs[q][u].step # 0 /\ sending' = [sending EXCEPT ![q] = sending[q] \cup {u}]
    BY <1>1 DEF Enqueue
  <2>2. sending \in [Processes -> SUBSET Services]
    BY DEF TypeOK
  <2>3. q = p
    BY <2>1, <2>2
  <2>4. sending'[p] = sending[p] \cup {u}
    BY <2>1, <2>2, <2>3
  <2> QED
    BY <2>1, <2>3, <2>4
<1>3. s \in DOMAIN jobs[p]
  BY <1>1, <1>2 DEF Enqueue
<1>4. jobs[p][s] \in Job /\ ago[p][s] \in 0..Long
  BY <1>3 DEF TypeOK
<1>5. PICK t \in RunTimes(jobs[p][s]) : TRUE
  BY <1>1, <1>2 DEF Enqueue
<1>6. /\ jobs[p][s].left \in Int /\ jobs[p][s].step \in Nat
      /\ Long \in Nat
  BY <1>4, TimeAssumption DEF Job
<1>7. t[1] >= jobs[p][s].left /\ t[1] \in Int /\ t[1] <= 0
  <2>1. t \in (jobs[p][s].left .. 0) \X (1 .. jobs[p][s].every + Jitter)
    BY <1>5 DEF RunTimes
  <2> QED
    BY <2>1, <1>6
<1>8. jobs[p][s].left = 0 /\ ago[p][s] + jobs[p][s].left >= jobs[p][s].step
  BY <1>3, <1>6, <1>7 DEF Punctual, OnTime
<1>9. clock \in Int
  BY TimeAssumption DEF TypeOK
<1>10. clock % jobs[p][s].step < jobs[p][s].step /\ clock % jobs[p][s].step \in Int
  BY <1>2, <1>6, <1>9
<1> QED
  BY <1>4, <1>6, <1>8, <1>10

\* A process never starts two checks of a service in one round while nothing
\* has gone wrong, for all intervals, jitters and numbers of edits: the key
\* of a check then names that check alone.
THEOREM RoundsNameOneCheck == Spec => RoundNamesOneCheck
<1> DEFINE Step ==
      \A p \in Processes, s \in Services :
        s \in sending'[p] \ sending[p] /\ jobs[p][s].step = jobs[p][s].every /\ faults = 0
          => ago[p][s] > clock % jobs[p][s].step
<1>1. Init => TypeOK /\ Punctual
  BY InitTypes, InitPunctual
<1>2. TypeOK /\ Punctual /\ [Next]_vars => (TypeOK /\ Punctual)'
  BY StepTypes, StepPunctual
<1>3. TypeOK /\ Punctual /\ [Next]_vars => [Step]_vars
  BY StepStarts
<1>4. RoundNamesOneCheck <=> [][Step]_vars
  BY DEF RoundNamesOneCheck
<1> HIDE DEF Step
<1> QED
  BY <1>1, <1>2, <1>3, <1>4, PTL DEF Spec

-----------------------------------------------------------------------------
\* A sync is enough

\* What the sync in hand read is still what the rows say.
FreshRead(p) == sync[p].at = "apply" => sync[p].seen = [s \in ActiveServices |-> row[s]]

\* The process has a job for each active service and no other, each with the
\* interval of its row.
InStep(p) ==
  /\ DOMAIN jobs[p] = ActiveServices
  /\ \A s \in ActiveServices : jobs[p][s].every = Every(row[s].interval)

\* The safety half of JobsFollowServices (scheduler.py:75-125): a sync whose
\* rows did not change under it leaves the process in step, whatever jobs it
\* had before; and until the rows change or the process ends, no run, missed
\* run, failed or further sync, nor any other process, puts it out of step.
SyncsSettle ==
  [][\A p \in up : p \in up' /\ row' = row /\ FreshRead(p) =>
       /\ FreshRead(p)'
       /\ InStep(p) \/ (sync[p].at = "apply" /\ sync'[p].at # "apply") => InStep(p)']_vars

\* The jobs after a sync are those of the services it read.
LEMMA AppliedJobs ==
  ASSUME TypeOK, NEW p \in Processes, SyncApply(p)
  PROVE  /\ \A q \in Processes : q # p => jobs'[q] = jobs[q] /\ sync'[q] = sync[q]
         /\ sync'[p].at = "idle"
         /\ DOMAIN jobs'[p] = DOMAIN sync[p].seen
         /\ \A s \in DOMAIN sync[p].seen : jobs'[p][s].every = Every(sync[p].seen[s].interval)
<1>1. PICK delay \in [Services -> 0..Jitter] :
        jobs' = [jobs EXCEPT ![p] =
          [s \in DOMAIN sync[p].seen |->
             IF s \in DOMAIN jobs[p] THEN Rescheduled(jobs[p][s], sync[p].seen[s], delay[s])
             ELSE NewJob(sync[p].seen[s], delay[s])]]
  BY DEF SyncApply
<1>2. PICK S \in SUBSET Services : sync[p].seen \in [S -> Row]
  <2>1. sync[p].seen \in Partly(Row)
    BY DEF TypeOK
  <2> QED
    BY <2>1 DEF Partly
<1>3. sync'[p] = Idle /\ \A q \in Processes : q # p => sync'[q] = sync[q]
  BY DEF SyncApply, TypeOK
<1>4. p \in DOMAIN jobs /\ DOMAIN jobs = Processes
  BY DEF TypeOK
<1>5. /\ jobs'[p] = [s \in DOMAIN sync[p].seen |->
             IF s \in DOMAIN jobs[p] THEN Rescheduled(jobs[p][s], sync[p].seen[s], delay[s])
             ELSE NewJob(sync[p].seen[s], delay[s])]
      /\ \A q \in Processes : q # p => jobs'[q] = jobs[q]
  BY <1>1, <1>4
<1>6. ASSUME NEW s \in DOMAIN sync[p].seen
      PROVE  jobs'[p][s].every = Every(sync[p].seen[s].interval)
  <2>1. sync[p].seen[s] \in Row
    BY <1>2
  <2>2. CASE s \notin DOMAIN jobs[p]
    BY <1>5, <2>2 DEF NewJob
  <2>3. CASE s \in DOMAIN jobs[p]
    <3>1. jobs[p][s] \in Job /\ jobs[p][s].every \in Nat \ {0}
      BY <2>3, EveryType DEF TypeOK, Job
    <3>2. jobs'[p][s] = Rescheduled(jobs[p][s], sync[p].seen[s], delay[s])
      BY <1>5, <2>3
    <3>3. CASE jobs[p][s].every = sync[p].seen[s].interval
      BY <3>1, <3>2, <3>3 DEF Rescheduled, Every
    <3>4. CASE jobs[p][s].every # sync[p].seen[s].interval
      BY <3>1, <3>2, <3>4 DEF Rescheduled, Job
    <3> QED
      BY <3>3, <3>4
  <2> QED
    BY <2>2, <2>3
<1>7. sync'[p].at = "idle"
  BY <1>3 DEF Idle
<1>8. DOMAIN jobs'[p] = DOMAIN sync[p].seen
  BY <1>5
<1> QED
  BY <1>3, <1>5, <1>6, <1>7, <1>8

\* Whatever is not a sync leaves the set of jobs and their triggers alone.
LEMMA TriggersStay ==
  ASSUME TypeOK, [Next]_vars, NEW p \in up, p \in up', ~SyncApply(p)
  PROVE  /\ DOMAIN jobs'[p] = DOMAIN jobs[p]
         /\ \A s \in DOMAIN jobs[p] : jobs'[p][s].every = jobs[p][s].every
<1> USE DEF api
<1>a. JobsOK /\ p \in Processes
  BY DEF TypeOK, JobsOK
<1>b. ASSUME NEW q \in Processes, Gone(q) PROVE UNCHANGED jobs[p]
  BY <1>a, <1>b DEF Gone, JobsOK
<1>1. CASE UNCHANGED jobs[p]
  BY <1>1
<1>2. CASE Tick
  BY <1>2, <1>a, TickJobs
<1>3. ASSUME NEW q \in Processes, SyncApply(q) PROVE UNCHANGED jobs[p]
  BY <1>3, <1>a, AppliedJobs
<1>4. ASSUME NEW q \in Processes, SyncFailed(q) \/ Exit(q) PROVE UNCHANGED jobs[p]
  BY <1>4, <1>b DEF SyncFailed, Exit
<1>5. ASSUME NEW q \in Processes, NEW s \in Services, Check(q, s)
      PROVE  /\ DOMAIN jobs'[p] = DOMAIN jobs[p]
             /\ \A u \in DOMAIN jobs[p] : jobs'[p][u].every = jobs[p][u].every
  <2>1. PICK t \in RunTimes(jobs[q][s]) : s \in DOMAIN jobs[q] /\ Due(q, s, t[2])
    BY <1>5 DEF Check, Enqueue, Skip
  <2>2. jobs[q][s] \in Job
    BY <2>1 DEF TypeOK
  <2>3. t[2] \in Int
    BY <2>2, NextRun
  <2> QED
    BY <1>a, <2>1, <2>3, LeftChange
<1> QED
  BY <1>1, <1>2, <1>3, <1>4, <1>5 DEF Next, Sync, Api, CreateService, UpdateService, DeleteService,
     Edit, Start, SyncDue, SyncSelect, Published, vars

\* A sync reads the rows as they are, and what it read it keeps.
LEMMA ReadStays ==
  ASSUME TypeOK, [Next]_vars, NEW p \in up, p \in up', row' = row, FreshRead(p)
  PROVE  FreshRead(p)'
<1> USE DEF api
<1>a. p \in Processes /\ ActiveServices' = ActiveServices
  BY DEF TypeOK, ActiveServices
<1>b. ASSUME sync'[p] = sync[p] \/ sync'[p].at # "apply" PROVE FreshRead(p)'
  BY <1>a, <1>b DEF FreshRead
<1>1. ASSUME NEW q \in Processes, SyncSelect(q) PROVE FreshRead(p)'
  <2>1. CASE q = p
    BY <1>1, <1>a, <2>1 DEF SyncSelect, TypeOK, FreshRead
  <2>2. CASE q # p
    <3>1. sync'[p] = sync[p]
      BY <1>1, <1>a, <2>2 DEF SyncSelect, TypeOK
    <3> QED
      BY <1>b, <3>1
  <2> QED
    BY <2>1, <2>2
<1>2. ASSUME NEW q \in Processes, SyncApply(q) PROVE FreshRead(p)'
  BY <1>2, <1>a, <1>b, AppliedJobs
<1>3. ASSUME NEW q \in Processes, Start(q) \/ SyncDue(q) PROVE FreshRead(p)'
  BY <1>3, <1>a, <1>b DEF Start, SyncDue, TypeOK
<1>4. ASSUME NEW q \in Processes, SyncFailed(q) \/ Exit(q) PROVE FreshRead(p)'
  BY <1>4, <1>a, <1>b DEF SyncFailed, Exit, Gone, TypeOK, Idle
<1>5. CASE UNCHANGED sync
  BY <1>5, <1>b
<1> QED
  BY <1>1, <1>2, <1>3, <1>4, <1>5 DEF Next, Sync, Api, CreateService, UpdateService, DeleteService,
     Edit, Check, Enqueue, Skip, Due, Published, Tick, vars

\* Only SyncApply ends a sync at its update of a process that goes on.
LEMMA SyncsEnd ==
  ASSUME TypeOK, [Next]_vars, NEW p \in up, p \in up',
         sync[p].at = "apply", sync'[p].at # "apply"
  PROVE  SyncApply(p)
<1> USE DEF api
<1>a. p \in Processes
  BY DEF TypeOK
<1>1. \A q \in Processes : ~(SyncApply(q) /\ q # p)
  BY <1>a, AppliedJobs
<1>2. \A q \in Processes : ~(Start(q) \/ SyncDue(q) \/ SyncSelect(q))
  BY <1>a DEF Start, SyncDue, SyncSelect, TypeOK
<1>3. \A q \in Processes : ~(SyncFailed(q) \/ Exit(q))
  BY <1>a DEF SyncFailed, Exit, Gone, TypeOK
<1>4. ~UNCHANGED sync
  OBVIOUS
<1> QED
  BY <1>1, <1>2, <1>3, <1>4 DEF Next, Sync, Api, CreateService, UpdateService, DeleteService,
     Edit, Check, Enqueue, Skip, Due, Published, Tick, vars

LEMMA StepSettles ==
  ASSUME TypeOK, [Next]_vars, NEW p \in up, p \in up', row' = row, FreshRead(p),
         InStep(p) \/ (sync[p].at = "apply" /\ sync'[p].at # "apply")
  PROVE  InStep(p)'
<1>a. p \in Processes /\ ActiveServices' = ActiveServices
  BY DEF TypeOK, ActiveServices
<1>1. CASE SyncApply(p)
  <2>1. sync[p].seen = [s \in ActiveServices |-> row[s]]
    BY <1>1 DEF SyncApply, FreshRead
  <2> QED
    BY <1>1, <1>a, <2>1, AppliedJobs DEF InStep
<1>2. CASE ~SyncApply(p)
  <2>1. InStep(p)
    BY <1>2, SyncsEnd
  <2> QED
    BY <1>2, <1>a, <2>1, TriggersStay DEF InStep
<1> QED
  BY <1>1, <1>2

\* One sync under rows that hold still puts a process in step, and it stays so
\* through everything but a change of the rows and its own end.
THEOREM OneSyncIsEnough == Spec => SyncsSettle
<1> DEFINE Step ==
      \A p \in up : p \in up' /\ row' = row /\ FreshRead(p) =>
        /\ FreshRead(p)'
        /\ InStep(p) \/ (sync[p].at = "apply" /\ sync'[p].at # "apply") => InStep(p)'
<1>1. TypeOK /\ [Next]_vars => [Step]_vars
  BY ReadStays, StepSettles
<1>2. SyncsSettle <=> [][Step]_vars
  BY DEF SyncsSettle
<1> HIDE DEF Step
<1> QED
  BY <1>1, <1>2, SchedulerTypes, PTL DEF Spec

=============================================================================
