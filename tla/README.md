# A verification project for APILogger

APILogger watches HTTP services. A coordinator (FastAPI) publishes check tasks
on a Redis stream, checker nodes probe the services and report results on a
second stream, and the coordinator stores the results in PostgreSQL, decides by
a quorum over a sliding window whether a service is down, opens and resolves
incidents, alerts, and tells the dashboards. This directory holds TLA+ modules
translated from that code, TLC configurations that check them on small
instances, and proofs, checked by TLAPS, for every size.

Line numbers are those of the commit this project was written against; `src/`
is left out of the paths.

## 1. The system and its components

| Component | Code | State | Operations | What makes it correct |
|---|---|---|---|---|
| Incident detector | `coordinator/app/incidents/detector.py` | `_locks` (per process); tables `incidents`, `service_status` | `process_check_result` | one open incident per service; status agrees with it; status is the quorum's verdict; alerts follow commits, in order; the lock is always released |
| Result consumer | `coordinator/app/queue/consumer.py` | batch in hand; `check_results`; pending list of the results group | read, store, feed the detector, acknowledge | no result lost by an acknowledgement; the detector hears of each at most once |
| Checker worker | `checker/app/worker.py` | coroutines, semaphore, `_shutdown`; pending list of the tasks group | read, handle, drain, reclaim | a task is reported once, acknowledged only then; clean stop |
| Probe, reporter | `checker/app/probe.py`, `reporter.py` | none | probe with retries; XADD of the result | every outcome is a result; only errors are retried; the text fields lose nothing the reader needs |
| Redis streams | external; `queue/producer.py` | log, last-delivered id, pending list | XADD, XREADGROUP, XACK, XAUTOCLAIM | |
| Check scheduler | `coordinator/app/scheduler/scheduler.py` | APScheduler jobs with frozen arguments | sync, fire, publish | every active service, and no other, goes on being checked, with its current settings, once per round |
| Alerting | `coordinator/app/incidents/alerting.py` | `alert_sent` | send by rule | every rule that wants the event is tried; `alert_sent` says so and nothing else; its commit destroys nothing |
| AI summary | `coordinator/app/incidents/ai_summary.py` | `ai_*` columns, `incident_context` | summarise, store | text and structure belong together, with their context, however summaries overlap; the alert carries them; a failing model holds no alert up |
| Service API | `coordinator/app/api/v1/services.py`, `deps.py`, `db/base.py` | `services`, `alert_rules` | create, update, delete | cascades; a response tells what is committed |
| Queries, statistics | `api/v1/incidents.py`, `checks.py` | none | reads; POST generate-summary | pages skip nothing while rows come in |
| Event stream, lifespan | `coordinator/app/main.py` | pub/sub subscriptions | start, cancel, relay | dashboards converge |
| Health, auth, logging, configuration | `api/v1/health.py`, `auth.py`, `core/` | counters | | |
| Frontend, deployment, load tests | `frontend/`, `infra/`, `load-tests/` | | | |

How they interact: the scheduler adds to the tasks stream; checker nodes read it
through one consumer group and add to the results stream; the consumer of every
coordinator process reads that through one group under one consumer name, calls
the detector inside its own coroutine, and acknowledges; the detector publishes
a status on a pub/sub channel before it commits and starts alert tasks after.
The API shares only the database with all of this. `infra/docker-compose.prod.yml:72`
starts the coordinator with `--workers 2`, so that consumer, scheduler and
detector run in two processes; `coordinator/Dockerfile:22` starts one.

What is hard here: coroutines that interleave at every `await`; decisions taken
from several SELECTs under READ COMMITTED; locks that are local to a process;
commits, publications and acknowledgements that fail halfway; entries that stay
pending; processes that die between any two steps. `PROJECT.json` lists each
such place with the properties that watch it.

## 2. The modules

| Module | What it is |
|---|---|
| `Streams` | A Redis stream with one consumer group, as a record (log, first stored entry, last-delivered id, pending list) and one operator per command. External: modelled from how the code calls it. MAXLEN trimming is approximate, so it may drop any number of old entries that leaves MAXLEN of them. |
| `Detector` | `process_check_result`: one action for every await. |
| `ResultConsumer` | `run_result_consumer` and `_handle_result`. |
| `ResultLedger` | Abstract specification: a result is absent, stored, fed to the detector, or gone with its service. `ResultConsumer` implements it. |
| `OutageLedger` | Abstract specification: a service's verdict, the id of its last incident, the open ones; finding it down opens an incident under a new id unless one is under way. `Detector` with one process implements it. |
| `CheckerWorker` | `run`, `_handle_task`, the signal handler, `_reclaim_pending`. |
| `TaskLedger` | Abstract specification: a task is taken by one node for good, told of by its taker, once, and settled only when told or excused. `CheckerWorker` implements it. |
| `Scheduler` | `_sync_jobs`, `_enqueue_check`, start and stop, with the rows of the services API. |
| `PostIncident` | The tasks that follow an incident: the AI summary, alerting, and the API calls that meet them. |
| `CheckRecords` | What a check says on its way: probe and retries, text fields, row and pages. |
| `MCDetector`, `MCResultConsumer`, `MCPostIncident`, `MCCheckRecords` | Instances for TLC. |
| `StreamLemmas`, `DetectorProofs`, `DetectorVerdictProofs`, `ResultConsumerProofs`, `CheckerWorkerProofs`, `SchedulerProofs`, `PostIncidentProofs`, `CheckRecordsProofs` | Theorems. |

Definitions whose comment starts with `Mutant:` are wrong versions of the
definition that follows. They are never used by a specification; each one is a
plausible bug that some property must notice (`mutants` in `PROJECT.json`).

### Detector

| Code | Model |
|---|---|
| `_locks`, `async with _get_lock` (detector.py:30-43) | `queue[process][service]`, a FIFO whose head holds the lock; `Acquire`, `Release` |
| the consumer's commit and its call (consumer.py:79, 100) | `Ingest` adds a row with a fresh key; `AskForLock` queues the call, as the consumer closes its session, an await, in between |
| the two counts (52-69) | `CountTotal`, `NothingRecent`, `CountFailing`, each seeing what is committed then |
| `scalar_one_or_none` (75-81) | `FindOpen`; `FindMany` when it raises |
| flush, status row, `redis.publish` (86-93, 131-159) | `Publish`, `PublishFailed`; the flush takes row locks (`Flushed`, `RowFree`), and `loaded` keeps the status row as it was read |
| `db.commit()` and `create_task` (94-100) | `Commit`, which updates the status only where it differs from `loaded`; `Refused` when the service is gone; `CommitLost` when only the answer is lost |
| any other exception; cancellation and death of the process | `Fail`, `Crash` |
| DELETE of a service, with its cascade | `DeleteService`, blocked by an open transaction that holds its rows |

`ImplementsOutages` maps `status` to the ledger's verdict, and the last id and
the open ids to themselves. Only `Commit`, `CommitLost` and `DeleteService` are
steps of the ledger; all the reads, locks and publications around them stutter.
`Evidence` relates a decision to the rows: an incident is opened only while a
failed result of the service is stored, and resolved only while a good one is.

`notices` and `screen` are the only outputs: the alert tasks that were started
and the status last published. The float comparison at line 72 is replaced by
the exact fraction: the quotient of two counts is correctly rounded, and the
order against the configured double is the order of the fractions.

SQLAlchemy writes a column only if its new value differs from the loaded one.
For `current_status` that matters with two processes: one that loaded `down`
and decides `down` leaves an `up` that the other committed meanwhile. With one
process the loaded status is the current one (`LoadedInv`, proved).

The consumer awaits the detector, so within one process calls do not overlap
today; the lock is written for "concurrent invocations" (detector.py:30), and
the model lets a process run several calls to check what the lock promises. In
production two processes do call the detector concurrently.

### ResultConsumer

`Read`, then for each entry of the batch `Reject`, `Persist`, `Duplicate` or
`PersistFailed`; `Detect` or `DetectFailed`; `Ack` or `AckFailed`. Every early
return acknowledges or does not as the code does; an exception from XACK leaves
the batch (`Abandon`), and so does `CancelledError` (`Stop`). `Conflicts`
covers the two causes of IntegrityError, a taken key and a deleted service,
which the code does not tell apart. A database error may hide an applied
commit. `fed` counts the detector calls per key. A deleted service never comes
back (ids are fresh UUIDs).

What a failure costs is bounded. `Missed` are the rows the detector never
hears of: a crash between the commit and the detector, an applied commit whose
answer is lost, and a detector that raises cost one each (`StoredIsFed`).
`Stranded` are the entries that stay pending in nobody's hands: an exception
that leaves the loop over the batch, as one from XACK does, drops the rest of
it, but no more than one batch for each failure (`StrandedPerFault`).

### CheckerWorker

`LoopTop` looks at `_shutdown`; `ReadTasks`, `ReadNothing`, `ReadFailed` are the
outcomes of XREADGROUP; every entry gets a coroutine whose phase is in `task`.
`Begin` takes the semaphore and parses, then `Probe`, `Report`, `Ack` and their
failures. `Drained` is `gather(*tasks)`. `Start` is `run()` from the top: it
claims any set of pending entries (those idle for 60 s, whoever owns them, or
none if the call fails) and, like the code, does nothing with them.

`ImplementsTasks` maps the ledger's takers of a task to the nodes with a
coroutine for it, what is owed to the pending list, and what is excused to the
entries that make no sense or were trimmed. The ledger implies that a task has
one handler for good and is acknowledged only when its result is in the stream.

### Scheduler

| Code | Model |
|---|---|
| `scheduler.get_jobs()` | `jobs[process]`, a function from services to jobs: frozen arguments (`url` for what is sent, `step` for `interval_secs`), the trigger's interval `every`, and `left`, the time until the next run |
| `_sync_jobs` (75-125) | `SyncSelect`, `SyncApply`, `SyncFailed`; closing the session is an await between the two |
| the sync job (134) | `SyncDue`, every `SyncPeriod` |
| `_make_round`, `_enqueue_check` (40-72) | `Enqueue`, which raises when `step` is 0, and `Published`, whether XADD returns or raises |
| coalesce, `max_instances`, misfires | `RunTimes`, `Skip` (APScheduler, external) |
| `start_scheduler`, `stop_scheduler`, a crash | `Start`, `Exit` |
| POST, PATCH, DELETE of a service | `CreateService`, `UpdateService`, `DeleteService`, each at its commit |

Time is relative: `Tick` lowers every `left`, so time never runs out and
liveness means something. A round is not a number; two checks of a service are
in one round when the time since the first (`ago`) is no more than the clock
modulo the interval. The jitter of a job is drawn once and then the delay of
every run up to it; the model draws each delay up to the maximum. Negative
intervals are left out. The SELECT of the first sync is assumed to take less
than a sync period. Services and processes share nothing here but the rows.

An interval of 0 is accepted by PATCH (`ServiceUpdate` has no validator). An
existing job then runs every second, is given a new trigger by every sync
(1 differs from 0), and still runs between syncs; a job that is added with it
divides by zero in every run, so that the service is never checked.
`KeepsChecking` leaves out that last case only.

`RoundNamesOneCheck` is about checks that start while the trigger runs at the
interval the job was added with and nothing has been late or failed. Neither
condition can go. The round is computed from the frozen interval (`step`), so
that after PATCH shortens the interval several checks share a round; and a
check that starts late can fall into the round of the next one. Checks that
share a round share the idempotency key, if the same node takes them, and the
later result is dropped as a duplicate.

### PostIncident

One incident of one service; its tasks share its row, the alert rules, and
nothing else.

| Code | Model |
|---|---|
| `create_task(_post_open_tasks)`, `create_task(_post_resolve_tasks)` (detector.py:96-100) | `Open`, `Resolve`: the commit with the start of the task; `TaskNeverStarted` when the process or the answer of the commit is lost in between |
| POST generate-summary (incidents.py:111-128) | `Request`: a summary task more |
| alert rules, DELETE of the service (services.py:232-280) | `CreateRule`, `DeleteRule`, `DeleteService` |
| the first session, up to the call of the model (ai_summary.py:132-175) | `LoadPrompt` |
| `provider.complete`, `_parse_response` (177-183, 204-237) | `Answered`, `AskFailed` (caught), `AnswerMalformed` (not caught) |
| the second session (185-200) | `LoadRow`, `Store` |
| `send_incident_alert` (alerting.py:20-49) | `LoadRules`, `Dispatch` for each rule, `Mark` |
| exceptions of a session; a commit whose answer is lost; the end of the process | `DatabaseError`, `CommitLost`, `Crash` |

An answer is a value that stands for the JSON, with a display text; a response
that is no JSON is an answer like any other (216-224), one that is JSON of the
wrong shape (a list, `"confidence": "high"`) is `Malformed`: its exception is
outside the `try` and ends the task, and with it the opened alert. SQLAlchemy
writes the columns whose new value differs from the loaded one, which is why
`WriteSummary` looks at `view`; two answers with one text but different JSON
could therefore leave the text of the one beside the JSON of the other, the
same text, which `DistinctTexts` sets aside. The several SELECTs of `selectinload`
are one step, and so are the three of the prompt: only the first decides
anything, the other two supply wording. A client of the model that cannot be
built (`_get_provider`, outside the `try`) ends the task as an error of the
database does there, and is among the outcomes of `DatabaseError`. A dispatch that was sent, that failed and that was skipped for
want of an SMTP account are one action, as the code goes on alike; so
`alert_sent` means "tried". Rules are told apart by channel and destination,
and their flags never change, as there is no call that changes them. The
metrics counter is there because it must never run ahead of the context rows.

### CheckRecords

| Code | Model |
|---|---|
| `str(v)` of each task field, `_parse_task` (producer.py:30, worker.py:140-151) | `Take`, for the body, the one field that may be None |
| `probe`, `_do_probe` (probe.py:28-111) | `Try`, `Again`; `Answer`, `Timeout`, `NoAnswer` are what a try may return |
| `report_result` (reporter.py:22-48) | `Report`, `Encode` |
| `_parse_result` and the row (consumer.py:57-79, 112-127) | `Persist`, `Parse`; results may be stored in another order than they were reported |
| `list_checks` (checks.py:50-95) | `ReadPage`, `Page`, for a client that reads until a page is short |

The text of a value is the value, except that None becomes the text `None`. It
is turned back for code, duration and body, but not for the error message: a
row of a check that went well says `error_message = "None"`, and the page shows
it. A body that is the text `None` itself is sent as no body. No two rows have
the same `checked_at`: with ties the order of pages is up to the database and
nothing holds. A client that stops by `total` instead of at a short page can
miss a row, because rows that come in push older ones to later pages.

`get_stats` is not modelled. Its two counts (checks.py:130-133) are two
statements, each of which sees what is committed then; good results that are
stored in between are in the second only, so that the quotient can exceed one,
while the comment above it (checks.py:129) calls it a fraction. It also ignores
`since` and `until`, which only the percentiles take.

## 3. What is checked

Each run is one `.cfg`. Times are for two workers.

| Run | States | Shows |
|---|---|---|
| `detector` | 315 010, 130 s | With one process: `ImplementsOutages` and `NoticesInOrder` under a fault, a crash and a deletion at every point; `EvaluationRepairsScreen`, from any evaluation to the next fault; `QuiescentVerdict` as long as nothing failed; `EveryCallReturns` under fairness. |
| `detector_two_workers` | 388 010, 17 s | With two processes: `NoticeAfterCommit`; `VerdictsHaveEvidence`; `OpenIncidentsBounded`, no more open incidents than processes; and `DoubleOpenFreezes`: two open incidents make every later evaluation raise. |
| `detector_double_open` | violation | `AtMostOneOpen` fails with two processes. |
| `detector_votes` | violation | `QuorumOfNodes`: results are counted, not nodes. |
| `consumer` | 375 526, 117 s | `OneHandler`, `FedAtMostOnce`, `AckMeansAccounted`, `ImplementsLedger` under two faults; `StoredIsFed` and `StrandedPerFault`, what each fault may cost; `EveryEntryIsAcked` unless something fails. |
| `consumer_redelivery` | violation | `UnackedIsRedelivered`: an entry that was not acknowledged is never read again. |
| `checker` | 294 980, 75 s | `ImplementsTasks` and `CleanStop` under a fault and two signals; `EveryTaskIsReported` unless something fails. |
| `checker_crash` | violation | `ClaimedTaskIsHandled`: a well-formed task that a starting node claims is dropped. |
| `scheduler` | 534 678, 105 s | `NotTooOften` across updates, late ticks, failed syncs and restarts; `RoundNamesOneCheck` while nothing is late and the interval is the one the job was added with; `JobsFollowServices` and `KeepsChecking` under fairness. |
| `scheduler_update` | violation | `ArgumentsFollowServices`: a changed url or interval never reaches an existing job's arguments. |
| `post_incident` | 278 075, 110 s | `TextOfStructured`, `ContextFollowsSummary`, `SentMeansTried`, `OpenedAlertCarriesSummary`, `SummaryIsKept` with a fault at every point; `WantedRulesAreTold` under fairness, unless something fails. |
| `check_records` | 143 176, 5 s | `RowTellsTries`, `BodySurvives`, `PagingMissesNothing`, with results that are stored between any two reads. |

Bounds, and why they suffice. Detector: one service, since services share
nothing but the event loop; two calls contend for one lock, and a third would
only wait longer; three results reach a fraction below, at and above one half
and let an opened incident be resolved and opened again; the window of one tick
and a clock of three let results be in, at the edge of, and out of the window;
one fault, because after a fault the call is over and the state is an ordinary
one. `detector_votes` needs 51/100, the default. Consumer: two workers, two keys
of two services (a deletion takes one and spares the other), three entries of
which one may repeat a key or be junk, batches of two, MAXLEN two, two faults.
Checker: two nodes with one slot each, two tasks, MAXLEN one (a task may be
trimmed unread), one fault, two signals; `checker_crash` leaves room for both
tasks, so that no trimming excuses the one that is lost. Scheduler: one service and one process,
which no other shares state with; intervals of 0, 1 and 3 against a sync period
of 3, so that an interval is shorter than a sync, as long, or invalid; three
changes (create, update, update or delete); two faults, enough for a run that is
two ticks late and misfires, or for a failed sync and an exit. PostIncident: the
tasks of both events and one requested summary, which can overlap that of the
opened incident at every await; two rules, one of which wants both events and
one the opening only; two answers with different texts; one fault, after which a
task is over. CheckRecords: two checks and up to three older rows against pages
of two, so that a page is full, short, empty and shifted by inserts; one retry,
so that an error is and is not the last try. The theorems below carry the
safety properties to every size. Deadlock is checked for the scheduler,
whose time never stops; with their inputs spent, the other components rest.

Fairness. Detector and consumer: weak fairness of each coroutine's next step:
the event loop runs what is ready and Redis and Postgres answer or fail. Faults,
crashes, deletions, the clock and the arrival of results are never fair. Checker
and consumer also assume that a process that ended is started again
(`restart: unless-stopped`), which matters only to liveness. In the scheduler
time passes as well, and the event loop is late a bounded number of times:
a loop that is always more than a second late runs no job at all
(`misfire_grace_time`). In PostIncident every task goes on: the event loop runs
what is ready, and the clients of the model, of SMTP and of the webhooks end
each call in time (alerting.py:117; the libraries' own timeouts). The API, the
faults and the opening of incidents are not fair. CheckRecords claims no
liveness.

Findings. Five of the repository's own statements are not what the code does;
each is a run that expects a violation and an entry under `findings`: the lock
against races (detector.py:30), votes of nodes (detector.py:12, config.py:31),
redelivery of unacknowledged results (consumer.py:95), recovery of a crashed
node's tasks (README.md:11), and jobs that are updated (scheduler.py:90). Two
more follow from these: all nodes read through one consumer group, so that a
task is probed by one node and not "independently" by each (README.md:9), which
is why votes are results; and the frozen interval makes one key name several
checks (README.md:94). A third case in that place, a node that reports, crashes
before it acknowledges and whose "same result will be delivered again", does not
arise: a task whose node is gone is never handled a second time
(`NoSecondReport`).

## 4. What is proved

Every safety property of a passing run is also a theorem:
for every number of services, nodes, calls, processes, keys, entries, rules,
rows and faults, from the assumptions on constants that the modules state. The
theorems of `PROJECT.json` name the property each one is about. Three kinds of
theorems have no run of their own: parts of a refinement stated by themselves
(`OneOpenIncident`, `StatusAgrees`, `OneHandlerForGood`, `NoSecondReport`,
`AckedWhenReported`);
invariants the others rest on; and the safety halves of liveness properties
(`TasksAreKept`, `ResultsAreKept`, `AlertsAreKept`, `OneSyncIsEnough`), which say
where the work still is, or that what was reached is kept. That it goes on from
there is the part that needs fairness.

* `StreamLemmas`: each stream operation keeps a stream well formed; what it adds
  to and removes from the pending list. The component proofs use nothing else of
  `Streams`.
* `DetectorProofs`. For any number of processes `TypeCorrect` and `LocksHeld` (a
  call past the lock is at the head of its queue). `NoticesFollowCommits`:
  `NoticeAfterCommit` is inductive once the ids of open incidents and of what
  calls have read are known to be among those committed (`IdsInv`), so that a
  new incident has a new id. `TwoIncidentsFreeze`: no call past the SELECT is
  left, and none gets past it (`WedgedStays`).
  `VerdictsRestOnResults`: rows of a service are only added until it is deleted,
  so a call that counted a result of one kind may still rely on it at its commit,
  even if the result has left the window; the second count is taken later, of at
  least as many rows, so that `failing < total` still proves a good one
  (`EvidenceInv`).
  `IncidentsBoundedByProcesses`, for finitely many processes: the open incidents
  and the calls that have found none and may still open one are together no more
  than the processes (`RoomInv`), since the lock lets one call of a process past
  the SELECT, and none passes it as an opener while an incident is open.
  `OpeningsToldOnce`: no two notices of an opening have one id. Under the
  assumption `OneProcess`: `OneOpenIncident`, `StatusAgrees`, `AlertOrder`. The
  argument: the lock makes a call alone on its service (`Alone`), so what it read
  of the open incidents is still true when it writes (`SeenInv`), unless the
  service was deleted, and then the commit is refused; the status it
  loaded is still there too (`LoadedInv`), so that after a commit the status is
  the one it decided on even where no UPDATE is sent (`StatusWritten`); only the
  last incident of a service can be open (`LastOpen`), so ids in `notices` grow. `AtMostOneOpen`
  alone is not inductive: without `SeenInv` a call could open a second incident.
* `DetectorVerdictProofs`, still under `OneProcess`. `ScreenRepaired`, that is
  `EvaluationRepairsScreen`: once a call writes, and while no further fault
  comes, either a call of the service is still writing or the screen shows the
  status or what the one call at its commit is about to write (`RepairedSince`);
  every step that is no fault keeps that (`StepRepaired`).
  `VerdictIsOfAll`, the detector's purpose: a result
  is stored together with a call that has still to count, so as long as no call
  has, whoever has counted has counted every row (`CountInv`); that the two
  SELECTs of a call are apart does no harm, because a result that comes between
  them brings a call of its own, which waits for the lock. The window needs that
  a call's clock is not ahead (`ClockInv`). `RefinesOutages`: by `SeenInv` and
  `StatusMatchesIncident` a commit finds the incidents and the status it decided
  from, and ids grow, so that each commit is a step of `OutageLedger`, and so is
  one whose answer is lost; everything else stutters.
* `ResultConsumerProofs`. `ConsumerTypes`, `OneHandlerHolds`, `FedOnce`,
  `AcksLoseNothing`, `RefinesLedger`. The invariant adds that
  batches are increasing (`Ordered`), that a worker about to call the detector
  holds a key that is stored, not yet fed (`DetectInv`) and held by no other
  worker (`DetectOnce`), and that one about to acknowledge holds an accounted
  entry (`AckInv`). `MissedRowsBounded`: a row joins the missed ones only in a
  step that counts a fault, and one at a time, since a worker that feeds the
  detector holds one key (`FedInv`). `StrandedEntriesBounded`: what is delivered
  is in hand or acknowledged, but for a batch at most for each fault
  (`StrandInv`). `ResultsAreKept`: while nothing fails,
  what was delivered is held by a worker or settled (`KeptInv`), as a batch holds
  all that its read delivered (`BatchIsAll`) and what is accounted for stays so
  (`AccountsStay`).
* `CheckerWorkerProofs`. `WorkerTypes`, `OneHandlerForGood`, `NoSecondReport`,
  `StopsCleanly`, `AckedWhenReported`. The invariant adds that
  coroutines live in a running process only (`NoOrphans`), that a report was put
  there by the entry's handler (`ReportInv`) and that a handler about to
  acknowledge has reported (`AckInv`). `RefinesTaskLedger`: a read takes entries
  that no node has (they are above the last one delivered), a lost reply mislays
  them, a report is its handler's, and what leaves the pending list is reported
  or excused. `TasksAreKept`: while nothing fails, whatever was delivered got a
  coroutine, and coroutines end by acknowledging (`KeptInv`). Both use that the
  bound on published tasks keeps all ids among the entries (`LogBounded`).
* `SchedulerProofs`. `SchedulerTypes`, `ChecksAreSpaced` and
  `RoundsNameOneCheck`. `NotTooOften` is inductive with the types: a new trigger
  waits a whole interval, a run sets the next run time an interval after the one
  it serves and starts at most `Grace` late, and a tick moves as much from the
  time left to the time since. Only at the bound `Long` of that time does it need
  that no job is later than `MaxLag`. While nothing has gone wrong no job is late
  at all and the whole interval has passed at each run (`Punctual`), which is
  more than any round has seen of the clock. `OneSyncIsEnough`: what a sync read
  stays true until the rows change (`ReadStays`), the update makes the jobs those
  of the services it read, whatever was there before (`AppliedJobs`), and no
  other step changes which jobs there are or their triggers (`TriggersStay`). It
  needs no bound on changes or faults.
* `PostIncidentProofs`. `PostIncidentTypes`, `ContextFollows`, `SummariesStay`,
  `TextsMatch`, `SentIsTried`, `AlertsCarrySummaries`. Tasks share the row, so
  the invariant says what a session that has loaded it may still rely on: a
  summary that was seen is there (`ViewInv`), chunks come with summaries
  (`ChunkInv`), rules are loaded once and only after the summary (`ListedInv`,
  `AnswerInv`, `CarryInv`), and the row and every loaded copy hold a text with
  its structure or neither (`PairInv`, if no two answers share a text).
  `AlertsAreKept`: a task dies only of a fault, a malformed answer or a deletion
  (`DeathHasCause`), and these causes last (`ExcuseStays`); an alert task that
  came to its end has nothing left to dispatch (`EndsTold`). In particular a call
  of the model that fails costs no alert.
* `CheckRecordsProofs`. `CheckRecordsTypes`, `RowsTellTries`, `BodiesSurvive`,
  `PagingIsComplete`. Rows: only the last try of a check can
  have another outcome than an error (`TriesInv`), what is reported is the last
  (`WireInv`), and reports have times of their own (`OneReport`), so that a row
  is that of one check. Pages: a row's rank, the number of newer rows, only
  grows (`RanksGrow`), so a row of the first page's time that ranks below the
  pages read so far was seen (`PagerInv`), and a short page means that no rank is
  left (`ShortPageIsLast`, by the bijection `PlacesAreTaken` between rows and
  ranks).

Only model-checked: liveness proper (`EveryCallReturns`, `EveryEntryIsAcked`,
`EveryTaskIsReported`, `JobsFollowServices`, `KeepsChecking`,
`WantedRulesAreTold`), which needs fairness and ENABLED, and the five
counterexamples. With two processes `AtMostOneOpen` is false, so the theorems
about one process say nothing of `--workers 2`; what holds there is
`VerdictsRestOnResults`, `IncidentsBoundedByProcesses`, `OpeningsToldOnce`,
`NoticesFollowCommits` and `TwoIncidentsFreeze`.

## 5. What is not modelled

* The composition of all components in one state space: each is checked against
  its neighbours' interfaces (the stream operations of `Streams`, an arbitrary
  arrival of results, rows that an arbitrary API changes).
* The wording of prompts and messages, the SDKs of the two model providers, SMTP
  and webhooks: a call answers, or it fails.
* Registration, login, tokens, name conflicts of services: no other component
  reads what they write. `get_db` commits after the response is built; no
  handler is modelled that reads its own write from another session.
* The subscription of a browser to the event stream and the page behind it: an
  event that is published while nobody subscribes is lost, and the page polls
  every 15 to 30 s besides.
* Redis losing a stream or its group; blocking, sleeping and backoff times; logs
  and the counters of `/metrics` that nothing reads.
* Statistics (`get_stats`: percentiles and uptime), filters and the list of incidents, which pages like the checks.
* That the resolved alert may overtake the opened one: it does, and no line of
  the repository promises otherwise.

`components` in `PROJECT.json` says so part by part.

## 6. Plan

What would be worth adding, in this order:

1. `Platform`: scheduler, streams, workers, consumer and detector on the
   smallest instance, against an abstract specification of a monitor.
2. `ServiceApi` and `Dashboard`: sessions that commit after the response, events
   lost between a publication and a subscription, polling.
3. The conditions under which two processes would keep `AtMostOneOpen` (a lock in
   the database, or a partial unique index), as a variant of `Detector`.
