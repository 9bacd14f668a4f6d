------------------------------- MODULE Detector -------------------------------
(***************************************************************************)
(* The quorum incident detector, coordinator/app/incidents/detector.py.     *)
(*                                                                          *)
(* The result consumer stores a check result and then calls                 *)
(* process_check_result(result), which takes the asyncio.Lock of the        *)
(* service, counts the recent results, decides whether the service is down, *)
(* opens or resolves an incident, updates the status row and commits.       *)
(* Every await of that coroutine is a point where other coroutines, other   *)
(* coordinator processes and the API may run, so every SELECT, the flush    *)
(* and the commit are actions of their own.  The database runs at READ      *)
(* COMMITTED: a statement sees what is committed when it runs.              *)
(*                                                                          *)
(* A call is one run of the coroutine; ProcessOf says which operating       *)
(* system process runs it.  The locks are a dict in process memory, so      *)
(* there is one queue per process and service.                              *)
(***************************************************************************)
EXTENDS Integers, Sequences, FiniteSets

CONSTANTS
  Services,     \* services that are monitored
  Nodes,        \* checker nodes that report results
  Rounds,       \* scheduling rounds, the last part of an idempotency key
  Calls,        \* slots for concurrent runs of process_check_result
  Processes,    \* coordinator processes (uvicorn workers)
  ProcessOf,    \* the process each call runs in
  Window,       \* QUORUM_WINDOW_SECS
  QuorumNum,    \* QUORUM_FRACTION is QuorumNum / QuorumDen
  QuorumDen,
  MaxTime,      \* bound on the clock
  MaxFaults     \* bound on database errors and process crashes

ASSUME SystemAssumption ==
  /\ Services # {}
  /\ ProcessOf \in [Calls -> Processes]

\* config.py validates 0 < QUORUM_FRACTION <= 1.
ASSUME QuorumAssumption ==
  /\ Window \in Nat
  /\ QuorumNum \in Nat \ {0}
  /\ QuorumDen \in Nat \ {0}
  /\ QuorumNum <= QuorumDen

ASSUME BoundsAssumption == MaxTime \in Nat /\ MaxFaults \in Nat

VARIABLES
  now,        \* the coordinator's clock
  exists,     \* services whose row is in the database
  checks,     \* committed rows of check_results
  opened,     \* per service, how many incidents were ever committed
  open,       \* per service, committed incidents whose resolved_at is null
  status,     \* per service, service_status.current_status
  queue,      \* per process and service, the asyncio.Lock: head holds, rest wait
  pc,         \* per call, the await it is at
  job,        \* per call, its local variables
  loaded,     \* per call, current_status in the status row it has loaded
  notices,    \* per service, background tasks started, in the order they start
  screen,     \* per service, the status last published to the dashboards
  faults      \* database errors and crashes so far

dbVars == <<exists, checks, opened, open, status>>
vars == <<now, dbVars, queue, pc, job, loaded, notices, screen, faults>>

-----------------------------------------------------------------------------
\* Data

Row == [svc : Services, node : Nodes, round : Rounds, at : 0..MaxTime, bad : BOOLEAN]

Job == [svc : Services, clock : 0..MaxTime, total : Nat, failing : Nat, seen : SUBSET Nat]

\* The locals of a call that has computed nothing yet.
Blank(s) == [svc |-> s, clock |-> 0, total |-> 0, failing |-> 0, seen |-> {}]

Notice == [event : {"opened", "resolved"}, id : Nat]

\* UNIQUE(idempotency_key): service, node and round name one row.
SameKey(r, q) == r.svc = q.svc /\ r.node = q.node /\ r.round = q.round

\* Mutant: `>` for `>=`.
InWindowStrict(r, t) == r.at + Window > t

\* checked_at >= window_start
InWindow(r, t) == r.at + Window >= t

Recent(s, t) == {r \in checks : r.svc = s /\ InWindow(r, t)}

Failing(s, t) == {r \in Recent(s, t) : r.bad}

\* failing / total >= QUORUM_FRACTION; the quotient is a double, correctly
\* rounded, which orders these fractions as the exact ones are ordered.
IsQuorumDown(failing, total) == failing * QuorumDen >= QuorumNum * total

Down(j) == IsQuorumDown(j.failing, j.total)

\* Mutant: an incident is opened although one is open.
OpensAgain(j) == Down(j)

\* The two branches of _evaluate that write to incidents.
Opens(j) == Down(j) /\ j.seen = {}

\* Mutant: only a window without a failure resolves an incident.
ResolvesOnAllClear(j) == j.failing = 0 /\ j.seen # {}

Resolves(j) == ~Down(j) /\ j.seen # {}

\* Mutant: the words of check_results.status in service_status.
NewStatusOfResult(j) == IF Down(j) THEN "failure" ELSE "success"

NewStatus(j) == IF Down(j) THEN "down" ELSE "up"

\* What the commit leaves in incidents and which background task follows it.
OpenAfter(j, s) ==
  IF Opens(j) THEN open[s] \cup {opened[s] + 1}
  ELSE IF Resolves(j) THEN open[s] \ j.seen
  ELSE open[s]

\* Mutant: every failing evaluation announces the incident.
AnnouncesEach(j, s) ==
  IF Down(j) THEN <<[event |-> "opened", id |-> IF Opens(j) THEN opened[s] + 1 ELSE opened[s]]>>
  ELSE IF Resolves(j) THEN <<[event |-> "resolved", id |-> CHOOSE i \in j.seen : TRUE]>>
  ELSE <<>>

Announces(j, s) ==
  IF Opens(j) THEN <<[event |-> "opened", id |-> opened[s] + 1]>>
  ELSE IF Resolves(j) THEN <<[event |-> "resolved", id |-> CHOOSE i \in j.seen : TRUE]>>
  ELSE <<>>

LockOf(c) == queue[ProcessOf[c]][job[c].svc]

HoldsLock(c) == LockOf(c) # <<>> /\ Head(LockOf(c)) = c

\* Mutant: the lock is taken without `async with`.
ReleaseForgotten(c) == queue

Release(c) == [queue EXCEPT ![ProcessOf[c]][job[c].svc] = Tail(@)]

-----------------------------------------------------------------------------
\* One run of process_check_result

\* Leaving the coroutine, by return or by exception (the caller logs it).
Return(c) ==
  /\ pc' = [pc EXCEPT ![c] = "idle"]
  /\ queue' = Release(c)
  /\ job' = [job EXCEPT ![c] = Blank(job[c].svc)]
  /\ loaded' = [loaded EXCEPT ![c] = "unknown"]

Goto(c, label) ==
  /\ pc' = [pc EXCEPT ![c] = label]
  /\ UNCHANGED queue

\* The consumer has committed the result row; leaving the session is an await.
Ingest(c, r) ==
  /\ pc[c] = "idle"
  /\ exists[r.svc]
  /\ r.at <= now
  /\ \A q \in checks : ~SameKey(r, q)
  /\ checks' = checks \cup {r}
  /\ job' = [job EXCEPT ![c] = Blank(r.svc)]
  /\ Goto(c, "stored")
  /\ UNCHANGED <<now, exists, opened, open, status, loaded, notices, screen, faults>>

\* It calls the detector, which asks for the lock of the service.
AskForLock(c) ==
  /\ pc[c] = "stored"
  /\ pc' = [pc EXCEPT ![c] = "waiting"]
  /\ queue' = [queue EXCEPT ![ProcessOf[c]][job[c].svc] = Append(@, c)]
  /\ UNCHANGED <<now, dbVars, job, loaded, notices, screen, faults>>

\* The lock is granted and window_start is computed from the clock.
Acquire(c) ==
  /\ pc[c] = "waiting"
  /\ HoldsLock(c)
  /\ job' = [job EXCEPT ![c].clock = now]
  /\ Goto(c, "total")
  /\ UNCHANGED <<now, dbVars, loaded, notices, screen, faults>>

CountTotal(c) ==
  LET total == Cardinality(Recent(job[c].svc, job[c].clock)) IN
  /\ pc[c] = "total"
  /\ total # 0
  /\ job' = [job EXCEPT ![c].total = total]
  /\ Goto(c, "failing")
  /\ UNCHANGED <<now, dbVars, loaded, notices, screen, faults>>

\* No result in the window: return without touching the status.
NothingRecent(c) ==
  /\ pc[c] = "total"
  /\ Recent(job[c].svc, job[c].clock) = {}
  /\ Return(c)
  /\ UNCHANGED <<now, dbVars, notices, screen, faults>>

\* Mutant: the count of the good results is taken for that of the failing ones.
CountFailingInverted(c) ==
  LET s == job[c].svc  t == job[c].clock IN
  /\ pc[c] = "failing"
  /\ job' = [job EXCEPT ![c].failing = Cardinality(Recent(s, t) \ Failing(s, t))]
  /\ Goto(c, "incident")
  /\ UNCHANGED <<now, dbVars, loaded, notices, screen, faults>>

CountFailing(c) ==
  /\ pc[c] = "failing"
  /\ job' = [job EXCEPT ![c].failing = Cardinality(Failing(job[c].svc, job[c].clock))]
  /\ Goto(c, "incident")
  /\ UNCHANGED <<now, dbVars, loaded, notices, screen, faults>>

\* Mutant: .scalars().first() for .scalar_one_or_none().
FindFirst(c) ==
  LET found == open[job[c].svc] IN
  /\ pc[c] = "incident"
  /\ job' = [job EXCEPT ![c].seen = IF found = {} THEN {} ELSE {CHOOSE i \in found : TRUE}]
  /\ Goto(c, "write")
  /\ UNCHANGED <<now, dbVars, loaded, notices, screen, faults>>

FindOpen(c) ==
  /\ pc[c] = "incident"
  /\ Cardinality(open[job[c].svc]) <= 1
  /\ job' = [job EXCEPT ![c].seen = open[job[c].svc]]
  /\ Goto(c, "write")
  /\ UNCHANGED <<now, dbVars, loaded, notices, screen, faults>>

\* scalar_one_or_none raises MultipleResultsFound.
FindMany(c) ==
  /\ pc[c] = "incident"
  /\ Cardinality(open[job[c].svc]) > 1
  /\ Return(c)
  /\ UNCHANGED <<now, dbVars, notices, screen, faults>>

\* Calls whose transaction holds a row lock: an inserted incident locks its
\* service row, an update locks the incident.
Flushed(c, s) == pc[c] = "commit" /\ job[c].svc = s /\ (Opens(job[c]) \/ Resolves(job[c]))

RowFree(c) ==
  Resolves(job[c]) =>
    \A d \in Calls : Flushed(d, job[c].svc) => job[d].seen \cap job[c].seen = {}

\* Mutant: the background task is started before the commit.
FlushAndNotify(c) ==
  LET s == job[c].svc IN
  /\ pc[c] = "write"
  /\ Opens(job[c]) \/ Resolves(job[c]) => exists[s]
  /\ RowFree(c)
  /\ Goto(c, "commit")
  /\ loaded' = [loaded EXCEPT ![c] = status[s]]
  /\ notices' = [notices EXCEPT ![s] = @ \o Announces(job[c], s)]
  /\ UNCHANGED <<now, dbVars, job>>

\* The flush of the incident succeeds, if there is one to write; the status row
\* is loaded and set in memory, which sends nothing to the database yet.
Flush(c) ==
  /\ pc[c] = "write"
  /\ Opens(job[c]) \/ Resolves(job[c]) => exists[job[c].svc]
  /\ RowFree(c)
  /\ Goto(c, "commit")
  /\ loaded' = [loaded EXCEPT ![c] = status[job[c].svc]]
  /\ UNCHANGED <<now, dbVars, job, notices>>

\* Mutant: only a change of the incident is published.
PublishTransitions(c) ==
  /\ Flush(c)
  /\ screen' = IF Opens(job[c]) \/ Resolves(job[c])
               THEN [screen EXCEPT ![job[c].svc] = NewStatus(job[c])]
               ELSE screen
  /\ UNCHANGED faults

\* _publish_status_event runs before the commit.
Publish(c) ==
  /\ Flush(c)
  /\ screen' = [screen EXCEPT ![job[c].svc] = NewStatus(job[c])]
  /\ UNCHANGED faults

\* Its errors are logged at debug level and the call goes on.
PublishFailed(c) ==
  /\ Flush(c)
  /\ faults < MaxFaults
  /\ faults' = faults + 1
  /\ UNCHANGED screen

\* What a successful commit writes.  The UPDATE of the status row names
\* current_status only if it differs from what was loaded.
Apply(c) ==
  LET s == job[c].svc IN
  /\ open' = [open EXCEPT ![s] = OpenAfter(job[c], s)]
  /\ opened' = [opened EXCEPT ![s] = IF Opens(job[c]) THEN @ + 1 ELSE @]
  /\ status' = [status EXCEPT ![s] = IF NewStatus(job[c]) # loaded[c] THEN NewStatus(job[c]) ELSE @]
  /\ UNCHANGED <<exists, checks>>

\* Commit, then start the background task for the alert.
Commit(c) ==
  LET s == job[c].svc IN
  /\ pc[c] = "commit"
  /\ exists[s]
  /\ Apply(c)
  /\ notices' = [notices EXCEPT ![s] = @ \o Announces(job[c], s)]
  /\ Return(c)
  /\ UNCHANGED <<now, screen, faults>>

\* The service was deleted meanwhile: a foreign key violation or an update
\* that matches no row, in the flush of an incident or in the commit.
Refused(c) ==
  /\ \/ pc[c] = "write" /\ (Opens(job[c]) \/ Resolves(job[c]))
     \/ pc[c] = "commit"
  /\ ~exists[job[c].svc]
  /\ Return(c)
  /\ UNCHANGED <<now, dbVars, notices, screen, faults>>

-----------------------------------------------------------------------------
\* Faults and the rest of the system

\* A database error before the commit: the session rolls back.
Fail(c) ==
  /\ faults < MaxFaults
  /\ pc[c] \notin {"idle", "stored", "waiting"}
  /\ faults' = faults + 1
  /\ Return(c)
  /\ UNCHANGED <<now, dbVars, notices, screen>>

\* The commit is applied but its acknowledgement is lost: the call raises and
\* starts no background task.
CommitLost(c) ==
  /\ faults < MaxFaults
  /\ pc[c] = "commit"
  /\ exists[job[c].svc]
  /\ faults' = faults + 1
  /\ Apply(c)
  /\ Return(c)
  /\ UNCHANGED <<now, notices, screen>>

\* A process dies, or its lifespan ends and cancels the consumer: its calls
\* and its locks are gone, its transactions are rolled back.
Crash(p) ==
  /\ faults < MaxFaults
  /\ faults' = faults + 1
  /\ pc' = [c \in Calls |-> IF ProcessOf[c] = p THEN "idle" ELSE pc[c]]
  /\ job' = [c \in Calls |-> IF ProcessOf[c] = p THEN Blank(job[c].svc) ELSE job[c]]
  /\ loaded' = [c \in Calls |-> IF ProcessOf[c] = p THEN "unknown" ELSE loaded[c]]
  /\ queue' = [queue EXCEPT ![p] = [s \in Services |-> <<>>]]
  /\ UNCHANGED <<now, dbVars, notices, screen>>

\* DELETE /services/{id} cascades to the rows of the service.  It waits for
\* the row locks of a transaction that has flushed an incident.
DeleteService(s) ==
  /\ exists[s]
  /\ \A c \in Calls : ~Flushed(c, s)
  /\ exists' = [exists EXCEPT ![s] = FALSE]
  /\ checks' = {r \in checks : r.svc # s}
  /\ open' = [open EXCEPT ![s] = {}]
  /\ status' = [status EXCEPT ![s] = "unknown"]
  /\ UNCHANGED <<now, opened, queue, pc, job, loaded, notices, screen, faults>>

Tick ==
  /\ now < MaxTime
  /\ now' = now + 1
  /\ UNCHANGED <<dbVars, queue, pc, job, loaded, notices, screen, faults>>

-----------------------------------------------------------------------------

\* A created service has a status row that says "unknown" and nothing else.
Init ==
  /\ now = 0
  /\ exists = [s \in Services |-> TRUE]
  /\ checks = {}
  /\ opened = [s \in Services |-> 0]
  /\ open = [s \in Services |-> {}]
  /\ status = [s \in Services |-> "unknown"]
  /\ queue = [p \in Processes |-> [s \in Services |-> <<>>]]
  /\ pc = [c \in Calls |-> "idle"]
  /\ job = [c \in Calls |-> Blank(CHOOSE s \in Services : TRUE)]
  /\ loaded = [c \in Calls |-> "unknown"]
  /\ notices = [s \in Services |-> <<>>]
  /\ screen = [s \in Services |-> "unknown"]
  /\ faults = 0

Step(c) ==
  \/ AskForLock(c)
  \/ Acquire(c)
  \/ CountTotal(c) \/ NothingRecent(c)
  \/ CountFailing(c)
  \/ FindOpen(c) \/ FindMany(c)
  \/ Publish(c)
  \/ Commit(c)
  \/ Refused(c)

Fault ==
  \/ \E c \in Calls : Fail(c) \/ PublishFailed(c) \/ CommitLost(c)
  \/ \E p \in Processes : Crash(p)

Next ==
  \/ \E c \in Calls, r \in Row : Ingest(c, r)
  \/ \E c \in Calls : Step(c)
  \/ Fault
  \/ \E s \in Services : DeleteService(s)
  \/ Tick

Spec == Init /\ [][Next]_vars

\* The event loop runs every coroutine that is ready, and the database answers.
Fairness == \A c \in Calls : WF_vars(Step(c))

FairSpec == Spec /\ Fairness

-----------------------------------------------------------------------------
\* Properties

Labels == {"idle", "stored", "waiting", "total", "failing", "incident", "write", "commit"}

Statuses == {"unknown", "up", "down"}

\* Every variable stays in its type; the ids of incidents are 1..opened.
TypeOK ==
  /\ now \in 0..MaxTime
  /\ exists \in [Services -> BOOLEAN]
  /\ checks \subseteq Row
  /\ opened \in [Services -> Nat]
  /\ open \in [Services -> SUBSET Nat]
  /\ status \in [Services -> Statuses]
  /\ queue \in [Processes -> [Services -> Seq(Calls)]]
  /\ pc \in [Calls -> Labels]
  /\ job \in [Calls -> Job]
  /\ loaded \in [Calls -> Statuses]
  /\ notices \in [Services -> Seq(Notice)]
  /\ screen \in [Services -> Statuses]
  /\ faults \in 0..MaxFaults

\* A service never has two open incidents: the lock serialises the calls that
\* look for an open incident and then create one (detector.py:30, 75-87).
AtMostOneOpen == \A s \in Services : \A i, j \in open[s] : i = j

\* The locks of different processes do not see each other, but each excludes
\* the calls of its own: a service has no more open incidents than there are
\* processes (detector.py:30, 75-87).
OpenIncidentsBounded ==
  \A s \in Services : Cardinality(open[s]) <= Cardinality(Processes)

\* The status row and the incidents, written by one transaction from a
\* decision taken on earlier reads, agree: a service is "down" exactly while
\* it has an open incident, whatever faults, crashes and deletions happen.
StatusMatchesIncident ==
  \A s \in Services : exists[s] => (status[s] = "down" <=> open[s] # {})

Outages == INSTANCE OutageLedger WITH verdict <- status

\* In one process every incident is one outage: an incident is opened exactly
\* when the status turns to "down", under a new id, and is open exactly until
\* the status changes, although the status and the incident are decided from
\* reads taken before other calls wrote (detector.py:75-94).
ImplementsOutages == Outages!LedgerSpec

Before(a, b) ==
  \/ a.id < b.id
  \/ a.id = b.id /\ a.event = "opened" /\ b.event = "resolved"

\* Alert tasks start in the order of the incidents, none twice, and the one
\* that reports a resolution after the one that reports the opening.
NoticesInOrder ==
  \A s \in Services : \A i, j \in DOMAIN notices[s] :
    i < j => Before(notices[s][i], notices[s][j])

\* "Fire background tasks AFTER commit so the incident exists in DB": an
\* alert task started for an opening finds its incident, and one started for
\* a resolution finds it resolved (detector.py:96-100).
NoticeAfterCommit ==
  \A s \in Services : \A i \in DOMAIN notices[s] :
    /\ notices[s][i].id \in 1..opened[s]
    /\ notices[s][i].event = "resolved" => notices[s][i].id \notin open[s]

Resting(s) == \A c \in Calls : job[c].svc = s => pc[c] = "idle"

Writing(s) == \E c \in Calls : pc[c] = "write" /\ job[c].svc = s

\* The dashboards are told before the commit, so a commit that fails leaves
\* them with a status that no row has.  The next evaluation repairs that,
\* whatever failed before it: from the moment a call writes, and until the next
\* fault, the dashboards agree with the database whenever no call of the
\* service runs (detector.py:92-94, 140-146).
EvaluationRepairsScreen ==
  \A s \in Services, k \in 0..MaxFaults :
    [](Writing(s) /\ faults = k =>
       [](faults = k /\ Resting(s) /\ exists[s] => screen[s] = status[s]))

\* The point of the detector: when no call is running, nothing failed and
\* nothing has left the window, the status is the quorum's verdict over every
\* stored result, although each call counted total and failing with two
\* SELECTs between which other results arrived.
QuiescentVerdict ==
  faults = 0 =>
    \A s \in Services :
      LET rows == {r \in checks : r.svc = s}
          bad == {r \in rows : r.bad}
      IN Resting(s) /\ exists[s] /\ rows # {} /\ (\A r \in rows : r.at + Window >= now)
           => (status[s] = "down" <=> Cardinality(bad) * QuorumDen >= QuorumNum * Cardinality(rows))

Evidence(s, bad) == \E r \in checks : r.svc = s /\ r.bad = bad

\* No verdict without evidence, however many processes count and whatever
\* arrives or leaves the window between the two counts, the look at the
\* incidents and the commit: an incident is opened only when a failing result
\* of the service is stored, and resolved only when a good one is
\* (detector.py:43-72).
VerdictsHaveEvidence ==
  [][\A s \in Services :
       /\ opened'[s] > opened[s] => Evidence(s, TRUE)
       /\ exists'[s] /\ ~(open[s] \subseteq open'[s]) => Evidence(s, FALSE)]_vars

\* Two processes can commit two open incidents.  From then on every call of
\* every process raises at the SELECT, and no status is written any more: the
\* service keeps its incidents and its status until it is deleted.
Wedged(s) ==
  /\ Cardinality(open[s]) > 1
  /\ \A c \in Calls : job[c].svc = s => pc[c] \notin {"write", "commit"}

DoubleOpenFreezes ==
  [][\A s \in Services : Wedged(s) /\ exists'[s] => Wedged(s)' /\ status'[s] = status[s]]_vars

\* The votes of the nodes: those that reported on s in the window, and those
\* with a failing result among them.
Voters(s) == {r.node : r \in Recent(s, now)}

Accusers(s) == {r.node : r \in Failing(s, now)}

\* "fraction of active checker nodes that must agree on 'down'" (config.py:31):
\* an incident is only opened when that fraction of the nodes that report on
\* the service report it failing.
QuorumOfNodes ==
  [][\A s \in Services : opened'[s] > opened[s] =>
       IsQuorumDown(Cardinality(Accusers(s)), Cardinality(Voters(s)))]_vars

\* A call that waits for the lock gets it and returns, whatever faults and
\* crashes interrupt the calls before it: no path keeps the lock.
EveryCallReturns ==
  \A c \in Calls : pc[c] = "waiting" ~> pc[c] = "idle"

=============================================================================
