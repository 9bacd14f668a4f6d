------------------------------ MODULE Scheduler -------------------------------
(***************************************************************************)
(* The check scheduler, coordinator/app/scheduler/scheduler.py, with the    *)
(* rows of the services API that it follows.                                *)
(*                                                                          *)
(* Every coordinator process keeps one APScheduler job per active service.  *)
(* A job has the arguments it was added with and an interval trigger; the   *)
(* sync job reads the services and then adds, removes and reschedules jobs. *)
(* APScheduler is external: a due job that is at most misfire_grace_time    *)
(* late runs, a later one is missed, several due run times are one run      *)
(* (coalesce), and one that finds its last run unfinished is skipped        *)
(* (max_instances).                                                         *)
(*                                                                          *)
(* Time is relative, so that it never runs out: a job holds the time left   *)
(* until its next run time, negative when it is late, and a round is told   *)
(* by the clock modulo a common multiple of the intervals.                  *)
(***************************************************************************)
EXTENDS Integers

CONSTANTS
  Services,
  Processes,    \* coordinator processes
  Urls,
  Intervals,    \* values of interval_secs that an update may set
  MinInterval,  \* the least that a creation may set
  Jitter,       \* SCHEDULER_JITTER_SECS
  SyncPeriod,   \* the interval of the sync job
  Grace,        \* misfire_grace_time of APScheduler, one second
  MaxLag,       \* bound on how late the event loop serves a job
  Cycle,        \* the clock is kept modulo this multiple of the intervals
  Long,         \* the time since a check is not counted further than this
  MaxChanges,   \* bound on creations, updates and deletions
  MaxFaults     \* bound on failures, exits and late ticks

\* IntervalTrigger(seconds=0) runs every second.
Every(interval) == IF interval = 0 THEN 1 ELSE interval

ASSUME TimeAssumption ==
  /\ Urls # {} /\ Intervals # {}
  /\ Intervals \subseteq Nat
  /\ {MinInterval, Jitter, SyncPeriod, Grace, MaxLag, Long} \subseteq Nat
  /\ MinInterval > 0
  /\ Grace <= MaxLag
  /\ MaxLag < SyncPeriod
  /\ Cycle \in Nat \ {0}
  /\ \A i \in Intervals : Every(i) + MaxLag <= Long /\ Cycle % Every(i) = 0

ASSUME BoundsAssumption == MaxChanges \in Nat /\ MaxFaults \in Nat

VARIABLES
  row,        \* per service, its row
  up,         \* processes that are running
  jobs,       \* per process, its jobs, from service to job
  sync,       \* per process, _sync_jobs: the await it is at and what it read
  syncLeft,   \* per process, the time left until the sync job
  sending,    \* per process, services with a check that is being published
  ago,        \* per process and service, the time since a check was started
  clock,      \* the time modulo Cycle
  changes,    \* creations, updates and deletions so far
  faults      \* failures, exits and late ticks so far

api == <<row, changes>>
vars == <<row, up, jobs, sync, syncLeft, sending, ago, clock, changes, faults>>

-----------------------------------------------------------------------------
\* Data

\* new: not created yet; paused: is_active is false.
Row == [url : Urls, interval : Intervals, state : {"new", "active", "paused", "gone"}]

\* url and step are the arguments frozen in the job, step standing for
\* interval_secs; every is the interval of its trigger.
Job == [url : Urls, step : Intervals, every : {Every(i) : i \in Intervals}, left : Int]

\* Functions from some of the services.
Partly(T) == UNION {[S -> T] : S \in SUBSET Services}

Nothing == [s \in {} |-> {}]

ActiveServices == {s \in Services : row[s].state = "active"}

\* first: the sync that start_scheduler awaits; seen: the rows that were read.
Idle == [at |-> "idle", first |-> FALSE, seen |-> Nothing]

Faulty == faults < MaxFaults /\ faults' = faults + 1

\* A new trigger: it starts one interval from now, delayed by the jitter.
\* The job's own jitter is drawn up to Jitter, and so is each delay.
NewJob(r, delay) ==
  [url |-> r.url, step |-> r.interval, every |-> Every(r.interval),
   left |-> Every(r.interval) + delay]

\* Mutant: the trigger starts at once.
RescheduledAtOnce(j, r, delay) ==
  IF j.every = r.interval THEN j
  ELSE [j EXCEPT !.every = Every(r.interval), !.left = delay]

\* Mutant: every sync reschedules every job.
RescheduledAlways(j, r, delay) ==
  [j EXCEPT !.every = Every(r.interval), !.left = Every(r.interval) + delay]

\* A job that exists gets a new trigger if its interval is another one; its
\* arguments stay.
Rescheduled(j, r, delay) ==
  IF j.every = r.interval THEN j
  ELSE [j EXCEPT !.every = Every(r.interval), !.left = Every(r.interval) + delay]

\* The last run time that is due, as the time left until it, and the next:
\* coalesce makes one run of all that are due.
RunTimes(j) ==
  {t \in (j.left .. 0) \X (1 .. j.every + Jitter) :
     /\ t[1] = j.left \/ t[1] >= j.left + j.every
     /\ t[2] - t[1] \in j.every .. j.every + Jitter}

-----------------------------------------------------------------------------
\* The services API: what an update may set is not validated.

Edit ==
  /\ changes < MaxChanges
  /\ changes' = changes + 1
  /\ UNCHANGED <<up, jobs, sync, syncLeft, sending, ago, clock, faults>>

CreateService(s) ==
  /\ row[s].state = "new"
  /\ \E u \in Urls, i \in Intervals :
       /\ i >= MinInterval
       /\ row' = [row EXCEPT ![s] = [url |-> u, interval |-> i, state |-> "active"]]
  /\ Edit

UpdateService(s) ==
  /\ row[s].state \in {"active", "paused"}
  /\ \E r \in Row :
       /\ r.state \in {"active", "paused"}
       /\ row' = [row EXCEPT ![s] = r]
  /\ Edit

DeleteService(s) ==
  /\ row[s].state \in {"active", "paused"}
  /\ row' = [row EXCEPT ![s].state = "gone"]
  /\ Edit

-----------------------------------------------------------------------------
\* _sync_jobs

\* The sync job falls due.  It is skipped while the last one runs, and missed
\* when it is too late; in any case its next run time is set.
SyncDue(p) ==
  /\ p \in up
  /\ syncLeft[p] <= 0
  /\ syncLeft' = [syncLeft EXCEPT ![p] = @ + SyncPeriod]
  /\ sync' = IF sync[p].at = "idle" /\ syncLeft[p] >= -Grace
             THEN [sync EXCEPT ![p].at = "select"] ELSE sync
  /\ UNCHANGED <<api, up, jobs, sending, ago, clock, faults>>

\* The SELECT of the active services.  Closing the session is an await, so
\* the rows may change before the jobs do.
SyncSelect(p) ==
  /\ sync[p].at = "select"
  /\ sync' = [sync EXCEPT ![p].at = "apply", ![p].seen = [s \in ActiveServices |-> row[s]]]
  /\ UNCHANGED <<api, up, jobs, syncLeft, sending, ago, clock, faults>>

\* Mutant: stale jobs are not removed.
SyncApplyKeeps(p) ==
  /\ sync[p].at = "apply"
  /\ \E delay \in [Services -> 0..Jitter] :
       LET seen == sync[p].seen
           held == jobs[p]
       IN jobs' = [jobs EXCEPT ![p] =
            [s \in DOMAIN seen \cup DOMAIN held |->
               IF s \notin DOMAIN held THEN NewJob(seen[s], delay[s])
               ELSE IF s \in DOMAIN seen THEN Rescheduled(held[s], seen[s], delay[s])
               ELSE held[s]]]
  /\ sync' = [sync EXCEPT ![p] = Idle]
  /\ UNCHANGED <<api, up, syncLeft, sending, ago, clock, faults>>

\* The rest runs without an await: jobs of other services are removed, and
\* the services that were read have theirs added or rescheduled.
SyncApply(p) ==
  /\ sync[p].at = "apply"
  /\ \E delay \in [Services -> 0..Jitter] :
       LET seen == sync[p].seen
           held == jobs[p]
       IN jobs' = [jobs EXCEPT ![p] =
            [s \in DOMAIN seen |->
               IF s \in DOMAIN held THEN Rescheduled(held[s], seen[s], delay[s])
               ELSE NewJob(seen[s], delay[s])]]
  /\ sync' = [sync EXCEPT ![p] = Idle]
  /\ UNCHANGED <<api, up, syncLeft, sending, ago, clock, faults>>

\* Mutant: the jobs of the ended process stay.
GoneWithJobsLeft(p) ==
  /\ up' = up \ {p}
  /\ sync' = [sync EXCEPT ![p] = Idle]
  /\ syncLeft' = [syncLeft EXCEPT ![p] = SyncPeriod]
  /\ sending' = [sending EXCEPT ![p] = {}]
  /\ UNCHANGED jobs

\* The process ends, its jobs and the coroutines of its event loop with it.
Gone(p) ==
  /\ up' = up \ {p}
  /\ jobs' = [jobs EXCEPT ![p] = Nothing]
  /\ sync' = [sync EXCEPT ![p] = Idle]
  /\ syncLeft' = [syncLeft EXCEPT ![p] = SyncPeriod]
  /\ sending' = [sending EXCEPT ![p] = {}]

\* The SELECT fails: APScheduler logs it and the jobs stay, but the first one
\* ends start_scheduler and with it the process.
SyncFailed(p) ==
  /\ Faulty
  /\ sync[p].at = "select"
  /\ IF sync[p].first THEN Gone(p)
     ELSE /\ sync' = [sync EXCEPT ![p] = Idle]
          /\ UNCHANGED <<up, jobs, syncLeft, sending>>
  /\ UNCHANGED <<api, ago, clock>>

-----------------------------------------------------------------------------
\* _enqueue_check

\* A due job is served: next is the time left until its next run time.
Due(p, s, next) ==
  /\ jobs' = [jobs EXCEPT ![p][s].left = next]
  /\ UNCHANGED <<api, up, sync, syncLeft, clock, faults>>

\* The coroutine computes the round of its frozen interval and awaits XADD.
\* With interval_secs 0 the division raises and nothing is published.
Enqueue(p, s) ==
  /\ s \in (DOMAIN jobs[p]) \ sending[p]
  /\ \E t \in RunTimes(jobs[p][s]) : t[1] >= -Grace /\ Due(p, s, t[2])
  /\ IF jobs[p][s].step = 0 THEN UNCHANGED <<sending, ago>>
     ELSE /\ sending' = [sending EXCEPT ![p] = @ \cup {s}]
          /\ ago' = [ago EXCEPT ![p][s] = 0]

\* APScheduler drops a run that is too late, or whose predecessor still waits
\* for Redis.
Skip(p, s) ==
  /\ s \in DOMAIN jobs[p]
  /\ \E t \in RunTimes(jobs[p][s]) :
       /\ t[1] < -Grace \/ s \in sending[p]
       /\ Due(p, s, t[2])
  /\ UNCHANGED <<sending, ago>>

\* XADD returns or raises; the exception is logged and the check is lost.
\* The stream itself is in the module CheckerWorker.
Published(p, s) ==
  /\ s \in sending[p]
  /\ sending' = [sending EXCEPT ![p] = @ \ {s}]
  /\ UNCHANGED <<api, up, jobs, sync, syncLeft, ago, clock, faults>>

-----------------------------------------------------------------------------
\* start_scheduler: the sync job is added, and a first sync is awaited.
Start(p) ==
  /\ p \notin up
  /\ up' = up \cup {p}
  /\ sync' = [sync EXCEPT ![p] = [at |-> "select", first |-> TRUE, seen |-> Nothing]]
  /\ UNCHANGED <<api, jobs, syncLeft, sending, ago, clock, faults>>

\* stop_scheduler with wait=False, or a crash.
Exit(p) ==
  /\ Faulty
  /\ p \in up
  /\ Gone(p)
  /\ UNCHANGED <<api, ago, clock>>

Overdue(p, by) ==
  \/ p \in up /\ syncLeft[p] <= -by
  \/ \E s \in DOMAIN jobs[p] : jobs[p][s].left <= -by

\* Time passes.  The event loop serves what is due before the next tick, save
\* for at most MaxFaults late ticks, and is never later than MaxLag.
Tick ==
  /\ \A p \in Processes : ~Overdue(p, MaxLag)
  /\ IF \E p \in Processes : Overdue(p, 0) THEN Faulty ELSE UNCHANGED faults
  /\ clock' = (clock + 1) % Cycle
  /\ jobs' = [p \in Processes |->
       [s \in DOMAIN jobs[p] |-> [jobs[p][s] EXCEPT !.left = @ - 1]]]
  /\ syncLeft' = [p \in Processes |-> IF p \in up THEN syncLeft[p] - 1 ELSE syncLeft[p]]
  /\ ago' = [p \in Processes |->
       [s \in Services |-> IF ago[p][s] < Long THEN ago[p][s] + 1 ELSE Long]]
  /\ UNCHANGED <<api, up, sync, sending>>

-----------------------------------------------------------------------------

Init ==
  /\ row = [s \in Services |-> CHOOSE r \in Row : r.state = "new"]
  /\ up = {}
  /\ jobs = [p \in Processes |-> Nothing]
  /\ sync = [p \in Processes |-> Idle]
  /\ syncLeft = [p \in Processes |-> SyncPeriod]
  /\ sending = [p \in Processes |-> {}]
  /\ ago = [p \in Processes |-> [s \in Services |-> Long]]
  /\ clock = 0
  /\ changes = 0
  /\ faults = 0

Api(s) == CreateService(s) \/ UpdateService(s) \/ DeleteService(s)

Sync(p) == SyncSelect(p) \/ SyncApply(p)

Check(p, s) == Enqueue(p, s) \/ Skip(p, s)

Next ==
  \/ \E s \in Services : Api(s)
  \/ \E p \in Processes : Start(p) \/ SyncDue(p) \/ Sync(p) \/ SyncFailed(p) \/ Exit(p)
  \/ \E p \in Processes, s \in Services : Check(p, s) \/ Published(p, s)
  \/ Tick

Spec == Init /\ [][Next]_vars

\* Time passes; the event loop runs what is ready, Postgres and Redis answer
\* or fail, and Docker restarts a process (restart: unless-stopped).
Fairness ==
  /\ WF_vars(Tick)
  /\ \A p \in Processes :
       /\ WF_vars(Start(p)) /\ WF_vars(SyncDue(p)) /\ WF_vars(Sync(p))
       /\ \A s \in Services : WF_vars(Check(p, s)) /\ WF_vars(Published(p, s))

FairSpec == Spec /\ Fairness

-----------------------------------------------------------------------------
\* Properties

\* Every variable stays in its type, and only a running process has jobs.
TypeOK ==
  /\ row \in [Services -> Row]
  /\ up \in SUBSET Processes
  /\ jobs = [p \in Processes |-> jobs[p]]
  /\ \A p \in Processes :
       DOMAIN jobs[p] \subseteq Services /\ jobs[p] \in [DOMAIN jobs[p] -> Job]
  /\ sync \in [Processes ->
       [at : {"idle", "select", "apply"}, first : BOOLEAN, seen : Partly(Row)]]
  /\ syncLeft \in [Processes -> Int]
  /\ sending \in [Processes -> SUBSET Services]
  /\ ago \in [Processes -> [Services -> 0..Long]]
  /\ clock \in 0 .. Cycle - 1
  /\ changes \in 0..MaxChanges
  /\ faults \in 0..MaxFaults
  /\ \A p \in Processes \ up : jobs[p] = Nothing /\ sync[p] = Idle

\* One process never checks a service more often than the interval in force
\* allows, less the lateness of the last run: whatever the order of syncs,
\* updates, late ticks, coalesced runs and restarts, the next run time of a
\* job is an interval after the last check.
NotTooOften ==
  \A p \in Processes : \A s \in DOMAIN jobs[p] :
    ago[p][s] + jobs[p][s].left >= jobs[p][s].every - Grace

Follows(p, s) ==
  IF row[s].state = "active"
  THEN s \in DOMAIN jobs[p] /\ jobs[p][s].every = Every(row[s].interval)
  ELSE s \notin DOMAIN jobs[p] /\ s \notin sending[p]

\* "newly added / deleted services are picked up without restart"
\* (scheduler.py:6): once nothing changes and nothing fails any more, each
\* process has a job with the right trigger for every active service, and no
\* job and no check for any other, although a sync may read before a change
\* and apply after it.
JobsFollowServices ==
  <>[](\A p \in Processes, s \in Services : Follows(p, s))

\* A job is never put off for ever: while a process holds a job it keeps
\* starting its checks, although every sync looks at the job again.  A job
\* that was added with interval 0 raises instead.
KeepsChecking ==
  \A p \in Processes, s \in Services :
    <>[](s \in DOMAIN jobs[p] /\ jobs[p][s].step > 0) => []<>(ago[p][s] = 0)

\* "Add / update jobs" (scheduler.py:90): once nothing changes any more, the
\* checks that are published carry the url and interval of the service.
ArgumentsFollowServices ==
  <>[](\A p \in Processes : \A s \in DOMAIN jobs[p] \cap ActiveServices :
         jobs[p][s].url = row[s].url /\ jobs[p][s].step = row[s].interval)

\* The idempotency key "maps deterministically to a single check event"
\* (README.md:94), a round being the clock divided by the frozen interval: a
\* process never starts two checks of a service in one round, through syncs,
\* pauses and other edits; as long as the trigger has the interval the rounds
\* are counted with (an update freezes the old one, a round then having several
\* checks) and no tick, crash or SELECT has gone wrong (the check after a late
\* one may share its round).
RoundNamesOneCheck ==
  [][\A p \in Processes, s \in Services :
       s \in sending'[p] \ sending[p] /\ jobs[p][s].step = jobs[p][s].every /\ faults = 0
         => ago[p][s] > clock % jobs[p][s].step]_vars

=============================================================================
