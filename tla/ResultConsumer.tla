---------------------------- MODULE ResultConsumer ----------------------------
(***************************************************************************)
(* The coordinator's result consumer, coordinator/app/queue/consumer.py:    *)
(* one coroutine per coordinator process reads the results stream in        *)
(* batches, stores each result under its idempotency key, feeds the         *)
(* detector and acknowledges the entry.  The steps between two awaits are   *)
(* one action.  Every process uses the same consumer name, and reads only   *)
(* entries the group has not delivered yet (">").                           *)
(***************************************************************************)
EXTENDS Streams, FiniteSets

CONSTANTS
  Workers,         \* coordinator processes
  Services,
  Keys,            \* idempotency keys the checkers report under
  SvcOf,           \* the service of each key
  Junk,            \* an entry that _parse_result rejects
  BatchSize,       \* BATCH_SIZE
  ResultsMaxLen,   \* MAXLEN of the results stream
  MaxEntries,      \* bound on the entries the checkers add
  MaxFaults        \* bound on the failures of Redis, Postgres and processes

CONSUMER_NAME == "coordinator-0"

ASSUME ConsumerAssumption ==
  /\ SvcOf \in [Keys -> Services]
  /\ Junk \notin Keys
  /\ BatchSize \in Nat \ {0}
  /\ ResultsMaxLen \in Nat \ {0}

ASSUME FaultsAssumption == MaxFaults \in Nat

VARIABLES
  results,   \* the results stream and its group
  pc,        \* per worker: read, handle, detect, ack, down
  batch,     \* per worker: the entries of the reply still to handle, in order
  rows,      \* keys with a committed row in check_results
  deleted,   \* services that were deleted
  fed,       \* per key, how often the detector was called with it
  faults

vars == <<results, pc, batch, rows, deleted, fed, faults>>

-----------------------------------------------------------------------------

Payload == Keys \cup {Junk}

Entry(w) == Head(batch[w])

Data(w) == results.log[Entry(w)]

\* INSERT fails: the key is taken, or the service it refers to is gone.  The
\* handler catches IntegrityError for both.
Conflicts(k) == k \in rows \/ SvcOf[k] \in deleted

Goto(w, label) ==
  /\ pc' = [pc EXCEPT ![w] = label]
  /\ UNCHANGED batch

\* Mutant: the loop counts the entry it has just handled.
NextEntryOffByOne(w) ==
  /\ batch' = [batch EXCEPT ![w] = Tail(@)]
  /\ pc' = [pc EXCEPT ![w] = IF Len(batch[w]) > 0 THEN "handle" ELSE "read"]

\* _handle_result returns: on to the rest of the batch, then the next read.
NextEntry(w) ==
  /\ batch' = [batch EXCEPT ![w] = Tail(@)]
  /\ pc' = [pc EXCEPT ![w] = IF Len(batch[w]) > 1 THEN "handle" ELSE "read"]

\* An exception leaves _handle_result: the loop forgets the batch and sleeps.
Abandon(w, label) ==
  /\ batch' = [batch EXCEPT ![w] = <<>>]
  /\ pc' = [pc EXCEPT ![w] = label]

Faulty ==
  /\ faults < MaxFaults
  /\ faults' = faults + 1

-----------------------------------------------------------------------------
\* The loop of run_result_consumer

\* Mutant: the consumer also reads its own pending entries (id "0").
ReadPendingToo(w) ==
  /\ pc[w] = "read"
  /\ \/ /\ NewIds(results, BatchSize) # {}
        /\ results' = XReadGroup(results, CONSUMER_NAME, BatchSize)
        /\ batch' = [batch EXCEPT ![w] = Batch(results, BatchSize)]
     \/ /\ \E i \in Pending(results) : batch' = [batch EXCEPT ![w] = <<i>>]
        /\ UNCHANGED results
  /\ pc' = [pc EXCEPT ![w] = "handle"]
  /\ UNCHANGED <<rows, deleted, fed, faults>>

Read(w) ==
  /\ pc[w] = "read"
  /\ NewIds(results, BatchSize) # {}
  /\ results' = XReadGroup(results, CONSUMER_NAME, BatchSize)
  /\ batch' = [batch EXCEPT ![w] = Batch(results, BatchSize)]
  /\ pc' = [pc EXCEPT ![w] = "handle"]
  /\ UNCHANGED <<rows, deleted, fed, faults>>

\* Redis delivers the entries and the connection breaks before the reply.
ReadLost(w) ==
  /\ Faulty
  /\ pc[w] = "read"
  /\ NewIds(results, BatchSize) # {}
  /\ results' = XReadGroup(results, CONSUMER_NAME, BatchSize)
  /\ UNCHANGED <<pc, batch, rows, deleted, fed>>

\* An entry that does not parse is logged and acknowledged.
Reject(w) ==
  /\ pc[w] = "handle"
  /\ Data(w) = Junk
  /\ Goto(w, "ack")
  /\ UNCHANGED <<results, rows, deleted, fed, faults>>

\* Mutant: a forgotten commit.
PersistUncommitted(w) ==
  /\ pc[w] = "handle"
  /\ Data(w) \in Keys
  /\ ~Conflicts(Data(w))
  /\ Goto(w, "detect")
  /\ UNCHANGED <<results, rows, deleted, fed, faults>>

\* Mutant: return after the commit.
PersistOnly(w) ==
  /\ pc[w] = "handle"
  /\ Data(w) \in Keys
  /\ ~Conflicts(Data(w))
  /\ rows' = rows \cup {Data(w)}
  /\ Goto(w, "ack")
  /\ UNCHANGED <<results, deleted, fed, faults>>

Persist(w) ==
  /\ pc[w] = "handle"
  /\ Data(w) \in Keys
  /\ ~Conflicts(Data(w))
  /\ rows' = rows \cup {Data(w)}
  /\ Goto(w, "detect")
  /\ UNCHANGED <<results, deleted, fed, faults>>

\* Mutant: the detector hears of a duplicate.
DuplicateDetected(w) ==
  /\ pc[w] = "handle"
  /\ Data(w) \in Keys
  /\ Conflicts(Data(w))
  /\ Goto(w, "detect")
  /\ UNCHANGED <<results, rows, deleted, fed, faults>>

\* Mutant: a duplicate is not acknowledged.
DuplicateUnacked(w) ==
  /\ pc[w] = "handle"
  /\ Data(w) \in Keys
  /\ Conflicts(Data(w))
  /\ NextEntry(w)
  /\ UNCHANGED <<results, rows, deleted, fed, faults>>

\* IntegrityError: roll back, acknowledge, and do not call the detector.
Duplicate(w) ==
  /\ pc[w] = "handle"
  /\ Data(w) \in Keys
  /\ Conflicts(Data(w))
  /\ Goto(w, "ack")
  /\ UNCHANGED <<results, rows, deleted, fed, faults>>

\* Mutant: every error is acknowledged.
PersistFailedAcked(w) ==
  /\ Faulty
  /\ pc[w] = "handle"
  /\ Data(w) \in Keys
  /\ Goto(w, "ack")
  /\ UNCHANGED <<results, rows, deleted, fed>>

\* Any other database error: roll back and leave the entry unacknowledged.
\* The commit may have been applied before the connection was lost.
PersistFailed(w) ==
  /\ Faulty
  /\ pc[w] = "handle"
  /\ Data(w) \in Keys
  /\ \/ UNCHANGED rows
     \/ ~Conflicts(Data(w)) /\ rows' = rows \cup {Data(w)}
  /\ NextEntry(w)
  /\ UNCHANGED <<results, deleted, fed>>

\* process_check_result, whose own steps are the module Detector.
Detect(w) ==
  /\ pc[w] = "detect"
  /\ fed' = [fed EXCEPT ![Data(w)] = @ + 1]
  /\ Goto(w, "ack")
  /\ UNCHANGED <<results, rows, deleted, faults>>

\* It raised before it evaluated anything: logged, and the entry is
\* acknowledged all the same.
DetectFailed(w) ==
  /\ Faulty
  /\ pc[w] = "detect"
  /\ Goto(w, "ack")
  /\ UNCHANGED <<results, rows, deleted, fed>>

Ack(w) ==
  /\ pc[w] = "ack"
  /\ results' = XAck(results, Entry(w))
  /\ NextEntry(w)
  /\ UNCHANGED <<rows, deleted, fed, faults>>

\* XACK raises, executed or not: the rest of the batch is dropped with it.
AckFailed(w) ==
  /\ Faulty
  /\ pc[w] = "ack"
  /\ results' \in {results, XAck(results, Entry(w))}
  /\ Abandon(w, "read")
  /\ UNCHANGED <<rows, deleted, fed>>

-----------------------------------------------------------------------------
\* Processes and the rest of the system

\* The process dies, or its lifespan ends and cancels the coroutine at the
\* await it is at.
Stop(w) ==
  /\ Faulty
  /\ pc[w] # "down"
  /\ Abandon(w, "down")
  /\ UNCHANGED <<results, rows, deleted, fed>>

Start(w) ==
  /\ pc[w] = "down"
  /\ Goto(w, "read")
  /\ UNCHANGED <<results, rows, deleted, fed, faults>>

\* A checker reports a result; retries and doubled tasks repeat a key.
Report(p) ==
  /\ Len(results.log) < MaxEntries
  /\ results' \in XAdd(results, p, ResultsMaxLen)
  /\ UNCHANGED <<pc, batch, rows, deleted, fed, faults>>

\* DELETE /services/{id} cascades to check_results.
DeleteService(s) ==
  /\ s \notin deleted
  /\ deleted' = deleted \cup {s}
  /\ rows' = {k \in rows : SvcOf[k] # s}
  /\ UNCHANGED <<results, pc, batch, fed, faults>>

-----------------------------------------------------------------------------

Init ==
  /\ results = EmptyStream
  /\ pc = [w \in Workers |-> "read"]
  /\ batch = [w \in Workers |-> <<>>]
  /\ rows = {}
  /\ deleted = {}
  /\ fed = [k \in Keys |-> 0]
  /\ faults = 0

Step(w) ==
  \/ Read(w)
  \/ Reject(w) \/ Persist(w) \/ Duplicate(w)
  \/ Detect(w)
  \/ Ack(w)
  \/ Start(w)

Fault(w) ==
  ReadLost(w) \/ PersistFailed(w) \/ DetectFailed(w) \/ AckFailed(w) \/ Stop(w)

Next ==
  \/ \E w \in Workers : Step(w) \/ Fault(w)
  \/ \E p \in Payload : Report(p)
  \/ \E s \in Services : DeleteService(s)

Spec == Init /\ [][Next]_vars

\* The event loop runs the coroutine; a stopped process is started again
\* (restart: unless-stopped).
Fairness == \A w \in Workers : WF_vars(Step(w))

FairSpec == Spec /\ Fairness

-----------------------------------------------------------------------------
\* Properties

Labels == {"read", "handle", "detect", "ack", "down"}

\* Every variable stays in its type, and a worker has a batch exactly while it
\* handles one.
TypeOK ==
  /\ IsStream(results, Payload, {CONSUMER_NAME})
  /\ pc \in [Workers -> Labels]
  /\ batch \in [Workers -> Seq(Nat \ {0})]
  /\ \A w \in Workers : batch[w] = <<>> <=> pc[w] \in {"read", "down"}
  /\ rows \subseteq Keys
  /\ deleted \subseteq Services
  /\ fed \in [Keys -> Nat]
  /\ faults \in 0..MaxFaults

Held(w) == {batch[w][k] : k \in DOMAIN batch[w]}

\* Workers share one consumer name, yet no entry is handled by two of them,
\* and an entry in hand was delivered and is not acknowledged yet.
OneHandler ==
  /\ \A w \in Workers : Held(w) \subseteq Pending(results)
  /\ \A w, v \in Workers : w # v => Held(w) \cap Held(v) = {}

Accounted(p) == p = Junk \/ p \in rows \/ SvcOf[p] \in deleted

\* An acknowledgement never loses a result: the entry that leaves the pending
\* list is junk, or its row is committed, or its service is gone.
AckMeansAccounted ==
  [][\A i \in Pending(results) \ Pending(results') : Accounted(results.log[i])']_vars

\* Retries, doubled tasks, lost commits and two workers notwithstanding, the
\* detector is fed a result at most once, and never one that was not stored
\* (unless its service is gone by now).
FedAtMostOnce ==
  \A k \in Keys :
    /\ fed[k] <= 1
    /\ fed[k] = 1 => k \in rows \/ SvcOf[k] \in deleted

\* The consumer implements the ledger of results.
PhaseOf(k) ==
  IF SvcOf[k] \in deleted THEN "gone"
  ELSE IF fed[k] > 0 THEN "fed"
  ELSE IF k \in rows THEN "stored"
  ELSE "absent"

Ledger == INSTANCE ResultLedger WITH phase <- [k \in Keys |-> PhaseOf(k)]

\* Every step of the consumer is a step of the ledger or leaves it alone.
ImplementsLedger == Ledger!LedgerSpec

\* Unless something fails, every entry that was added is acknowledged in the
\* end, or the stream was trimmed past it before anyone read it.
EveryEntryIsAcked ==
  \A i \in 1..MaxEntries :
    i \in Ids(results) ~> \/ i <= results.last /\ i \notin Pending(results)
                          \/ i > results.last /\ i < results.first
                          \/ faults > 0

\* Rows that the detector has not heard of and no worker is about to tell it of.
Missed == {k \in rows : fed[k] = 0 /\ \A w \in Workers : pc[w] = "detect" => Data(w) # k}

\* No row waits for an evaluation that never comes, except where something
\* failed: a crash between the commit of a row and the detector, an applied
\* commit whose answer is lost, or a detector that raises costs the evaluation
\* of one row, and of no other (consumer.py:79-107).
StoredIsFed == Cardinality(Missed) <= faults

\* Delivered entries that are not acknowledged and in nobody's hands: as only
\* new entries are read, nobody will handle them again.
Stranded == {i \in Pending(results) : \A w \in Workers : i \notin Held(w)}

\* Every failure of Redis, of Postgres or of a process strands one batch at
\* most, also an XACK that fails and drops the rest of its batch
\* (consumer.py:51, 109); nothing else does, whatever a batch is made of.
StrandedPerFault == Cardinality(Stranded) <= faults * BatchSize

\* "Don't ACK -- will be re-delivered" (consumer.py:95): an entry that is
\* pending and in nobody's hands is handled again or leaves the pending list.
UnackedIsRedelivered ==
  \A i \in 1..MaxEntries :
    (i \in Pending(results) /\ \A w \in Workers : i \notin Held(w))
      ~> (i \notin Pending(results) \/ \E w \in Workers : i \in Held(w))

=============================================================================
