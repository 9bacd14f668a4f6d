------------------------ MODULE DetectorVerdictProofs -------------------------
(***************************************************************************)
(* Proofs about Detector, continued, all for one process: that as long as   *)
(* nothing fails the status row is right when the calls have all returned;  *)
(* that after any failure the next evaluation repairs the dashboards; and   *)
(* that, whatever fails, the process implements the ledger of outages.      *)
(***************************************************************************)
EXTENDS DetectorProofs

\* window_start is computed from a clock that has been read already.
ClockInv == \A c \in Calls : pc[c] \in Active => job[c].clock <= now

Telling(c, s) == pc[c] = "commit" /\ job[c].svc = s

\* The dashboards show what is committed or about to be.
ToldOf(s) ==
  /\ \A c \in Calls : Telling(c, s) => screen[s] = NewStatus(job[c])
  /\ (\A c \in Calls : ~Telling(c, s)) => screen[s] = status[s]

\* An evaluation has told the dashboards, or is about to, and nothing has failed
\* since the k-th fault.
RepairedSince(s, k) ==
  /\ k <= faults
  /\ faults = k /\ exists[s] => Writing(s) \/ ToldOf(s)

Rows(s) == {r \in checks : r.svc = s}

BadRows(s) == {r \in Rows(s) : r.bad}

AllInWindow(s) == \A r \in Rows(s) : r.at + Window >= now

\* A call that has still to count the results of its service.
Uncounted(s) == \E c \in Calls : job[c].svc = s /\ pc[c] \in {"stored", "waiting", "total"}

\* A result that is stored has a call that has still to count; so without one
\* a call that has counted has counted every row.
HasCounted(c, s) ==
  /\ pc[c] \in {"failing", "incident", "write", "commit"} =>
       job[c].total = Cardinality(Rows(s))
  /\ pc[c] \in {"incident", "write", "commit"} =>
       job[c].failing = Cardinality(BadRows(s))

Verdict(s) ==
  status[s] = "down" <=> IsQuorumDown(Cardinality(BadRows(s)), Cardinality(Rows(s)))

VerdictOf(s) ==
  /\ \A c \in Calls : job[c].svc = s => HasCounted(c, s)
  /\ Resting(s) /\ Rows(s) # {} => Verdict(s)

CountInv ==
  faults = 0 =>
    \A s \in Services : exists[s] /\ AllInWindow(s) /\ ~Uncounted(s) => VerdictOf(s)

Inv3 == Inv2 /\ ClockInv /\ CountInv

\* The number of faults never falls, and a step that keeps it is one of these.
LEMMA NothingFails ==
  ASSUME Inv2, [Next]_vars
  PROVE  /\ faults \in Nat /\ faults' \in Nat /\ faults <= faults'
         /\ faults' <= faults =>
              /\ faults' = faults
              /\ \/ \E c \in Calls, r \in Row : Ingest(c, r)
                 \/ \E c \in Calls : Step(c)
                 \/ \E s \in Services : DeleteService(s)
                 \/ Tick \/ UNCHANGED vars
<1>1. faults \in Nat
  BY BoundsAssumption DEF Inv2, Inv1, TypeOK
<1>2. Fault => faults' = faults + 1
  BY DEF Fault, Fail, PublishFailed, CommitLost, Crash
<1>3. ~Fault => faults' = faults
  BY DEF Next, Ingest, Step, AskForLock, Acquire, CountTotal, NothingRecent, CountFailing,
     FindOpen, FindMany, Publish, Commit, Refused, DeleteService, Tick, vars
<1>4. ~Fault => \/ \E c \in Calls, r \in Row : Ingest(c, r)
                \/ \E c \in Calls : Step(c)
                \/ \E s \in Services : DeleteService(s)
                \/ Tick \/ UNCHANGED vars
  BY DEF Next
<1> QED
  BY <1>1, <1>2, <1>3, <1>4

-----------------------------------------------------------------------------
\* The clock

LEMMA StepClock == Inv2 /\ ClockInv /\ [Next]_vars => ClockInv'
<1> SUFFICES ASSUME Inv2, ClockInv, [Next]_vars, NEW c \in Calls, pc'[c] \in Active
             PROVE  job'[c].clock <= now'
  BY DEF ClockInv
<1>1. /\ now \in Int /\ pc \in [Calls -> Labels] /\ job \in [Calls -> Job]
      /\ job[c].clock \in Int /\ job[c].svc \in Services
  BY BoundsAssumption DEF Inv2, Inv1, TypeOK, Job
<1>2. now' >= now /\ now' \in Int
  <2>1. now' = now \/ Tick
    BY DEF Next, Ingest, Step, AskForLock, Acquire, CountTotal, NothingRecent,
       CountFailing, FindOpen, FindMany, Publish, Commit, Refused, DeleteService, Fault, Fail, PublishFailed,
       CommitLost, Crash, Flush, vars
  <2> QED
    BY <1>1, <2>1 DEF Tick
<1>3. CASE UNCHANGED <<pc, job>>
  BY <1>1, <1>2, <1>3 DEF ClockInv
<1>4. ASSUME NEW d \in Calls, pc'[d] \notin Active,
             \A e \in Calls \ {d} : pc'[e] = pc[e] /\ job'[e] = job[e]
      PROVE  job'[c].clock <= now'
  BY <1>1, <1>2, <1>4 DEF ClockInv
<1>5. ASSUME NEW d \in Calls, Return(d) PROVE job'[c].clock <= now'
  BY <1>1, <1>4, <1>5 DEF Return, Active
<1>6. ASSUME NEW d \in Calls, NEW r \in Row, Ingest(d, r) PROVE job'[c].clock <= now'
  BY <1>1, <1>4, <1>6 DEF Ingest, Goto, Active
<1>14. ASSUME NEW d \in Calls, AskForLock(d) PROVE job'[c].clock <= now'
  BY <1>1, <1>4, <1>14 DEF AskForLock, Active
<1>7. ASSUME NEW d \in Calls, Acquire(d) PROVE job'[c].clock <= now'
  BY <1>1, <1>2, <1>7 DEF Acquire, Goto, ClockInv
<1>8. ASSUME NEW d \in Calls, CountTotal(d) PROVE job'[c].clock <= now'
  <2>1. pc[d] \in Active /\ \A e \in Calls \ {d} : pc'[e] = pc[e]
    BY <1>1, <1>8 DEF CountTotal, Goto, Active, Labels
  <2>2. job'[c].clock = job[c].clock
    BY <1>1, <1>8 DEF CountTotal, Job
  <2> QED
    BY <1>1, <1>2, <2>1, <2>2 DEF ClockInv
<1>9. ASSUME NEW d \in Calls, CountFailing(d) PROVE job'[c].clock <= now'
  <2>1. pc[d] \in Active /\ \A e \in Calls \ {d} : pc'[e] = pc[e]
    BY <1>1, <1>9 DEF CountFailing, Goto, Active, Labels
  <2>2. job'[c].clock = job[c].clock
    BY <1>1, <1>9 DEF CountFailing, Job
  <2> QED
    BY <1>1, <1>2, <2>1, <2>2 DEF ClockInv
<1>10. ASSUME NEW d \in Calls, FindOpen(d) PROVE job'[c].clock <= now'
  <2>1. pc[d] \in Active /\ \A e \in Calls \ {d} : pc'[e] = pc[e]
    BY <1>1, <1>10 DEF FindOpen, Goto, Active, Labels
  <2>2. job'[c].clock = job[c].clock
    BY <1>1, <1>10 DEF FindOpen, Job
  <2> QED
    BY <1>1, <1>2, <2>1, <2>2 DEF ClockInv
<1>11. ASSUME NEW d \in Calls, Flush(d) PROVE job'[c].clock <= now'
  <2>1. pc[d] \in Active /\ \A e \in Calls \ {d} : pc'[e] = pc[e]
    BY <1>1, <1>11 DEF Flush, Goto, Active, Labels
  <2> QED
    BY <1>1, <1>2, <1>11, <2>1 DEF ClockInv, Flush
<1>12. ASSUME NEW p \in Processes, Crash(p) PROVE job'[c].clock <= now'
  <2>1. pc'[c] = pc[c] /\ job'[c] = job[c]
    BY <1>12 DEF Crash, Active
  <2> QED
    BY <1>1, <1>2, <2>1 DEF ClockInv
<1> QED
  BY <1>3, <1>5, <1>6, <1>7, <1>8, <1>9, <1>10, <1>11, <1>12, <1>14
     DEF Next, Step, Fault, NothingRecent, FindMany, Publish, PublishFailed, Commit,
         CommitLost, Refused, Fail, DeleteService, Tick, vars

-----------------------------------------------------------------------------
\* The dashboards

LEMMA StepRepaired ==
  ASSUME OneProcess, Inv2, [Next]_vars, NEW s \in Services, NEW k \in Nat, RepairedSince(s, k)
  PROVE  RepairedSince(s, k)'
<1> SUFFICES ASSUME faults' = k, exists'[s] PROVE Writing(s)' \/ ToldOf(s)'
  BY NothingFails DEF RepairedSince
<1> USE DEF dbVars
<1>1. faults = k /\ pc \in [Calls -> Labels] /\ job \in [Calls -> Job]
      /\ exists \in [Services -> BOOLEAN] /\ screen \in [Services -> Statuses]
      /\ status \in [Services -> Statuses]
  BY NothingFails DEF RepairedSince, Inv2, Inv1, TypeOK
<1>a. \/ \E c \in Calls, r \in Row : Ingest(c, r)
      \/ \E c \in Calls : Step(c)
      \/ \E t \in Services : DeleteService(t)
      \/ Tick \/ UNCHANGED vars
  BY <1>1, NothingFails
<1>2. exists[s] /\ (Writing(s) \/ ToldOf(s))
  <2>1. exists[s]
    BY <1>1, <1>a DEF Ingest, Step, AskForLock, Acquire, CountTotal, NothingRecent,
       CountFailing, FindOpen, FindMany, Publish, Flush, Commit, Apply, Refused,
       DeleteService, Tick, vars
  <2> QED
    BY <1>1, <2>1 DEF RepairedSince
\* Steps that neither write nor publish nor commit for this service.
<1>3. ASSUME screen'[s] = screen[s], status'[s] = status[s],
             \A c \in Calls : Telling(c, s)' => Telling(c, s) /\ job'[c] = job[c],
             \A c \in Calls : Telling(c, s) => Telling(c, s)',
             \A c \in Calls : pc[c] = "write" /\ job[c].svc = s =>
                               pc'[c] = "write" /\ job'[c] = job[c]
      PROVE  Writing(s)' \/ ToldOf(s)'
  <2>1. CASE Writing(s)
    BY <1>3, <2>1 DEF Writing
  <2>2. CASE ToldOf(s)
    BY <1>3, <2>2 DEF ToldOf, NewStatus, Down
  <2> QED
    BY <1>2, <2>1, <2>2
<1>4. ASSUME NEW c \in Calls, pc[c] \notin {"write", "commit"}, pc'[c] # "commit",
             \A d \in Calls \ {c} : pc'[d] = pc[d] /\ job'[d] = job[d],
             UNCHANGED <<screen, status>>
      PROVE  Writing(s)' \/ ToldOf(s)'
  BY <1>3, <1>4 DEF Telling
<1>5. ASSUME NEW c \in Calls, NEW r \in Row, Ingest(c, r) PROVE Writing(s)' \/ ToldOf(s)'
  BY <1>1, <1>4, <1>5 DEF Ingest, Goto
<1>6. ASSUME NEW c \in Calls, \/ AskForLock(c) \/ Acquire(c) \/ CountTotal(c)
                             \/ CountFailing(c) \/ FindOpen(c)
      PROVE  Writing(s)' \/ ToldOf(s)'
  BY <1>1, <1>4, <1>6 DEF AskForLock, Acquire, CountTotal, CountFailing, FindOpen, Goto
<1>7. ASSUME NEW c \in Calls, NothingRecent(c) \/ FindMany(c)
      PROVE  Writing(s)' \/ ToldOf(s)'
  BY <1>1, <1>4, <1>7 DEF NothingRecent, FindMany, Return
<1>8. ASSUME NEW c \in Calls, Refused(c) PROVE Writing(s)' \/ ToldOf(s)'
  <2>1. job[c].svc # s /\ UNCHANGED <<screen, status>>
        /\ pc'[c] = "idle"
        /\ \A d \in Calls \ {c} : pc'[d] = pc[d] /\ job'[d] = job[d]
    BY <1>1, <1>2, <1>8 DEF Refused, Return
  <2> QED
    BY <1>3, <2>1 DEF Telling
<1>9. ASSUME NEW c \in Calls, Publish(c) PROVE Writing(s)' \/ ToldOf(s)'
  <2>1. /\ pc[c] = "write" /\ pc'[c] = "commit"
        /\ job' = job /\ status' = status
        /\ screen' = [screen EXCEPT ![job[c].svc] = NewStatus(job[c])]
        /\ \A d \in Calls \ {c} : pc'[d] = pc[d]
    BY <1>1, <1>9 DEF Publish, Flush, Goto
  <2>2. CASE job[c].svc = s
    <3>1. \A d \in Calls : Telling(d, s)' => d = c
      <4> SUFFICES ASSUME NEW d \in Calls, Telling(d, s)', d # c PROVE FALSE
        OBVIOUS
      <4>1. pc[d] = "commit" /\ job[d].svc = s
        BY <2>1 DEF Telling
      <4>2. pc[d] \in Active /\ pc[c] \in Active
        BY <2>1, <4>1 DEF Active, Labels
      <4> QED
        BY <2>2, <4>1, <4>2, Alone DEF Inv2, Inv1
    <3>2. screen'[s] = NewStatus(job[c]) /\ Telling(c, s)'
      BY <1>1, <2>1, <2>2 DEF Telling
    <3>3. NewStatus(job'[c]) = NewStatus(job[c])
      BY <2>1
    <3> QED
      BY <3>1, <3>2, <3>3 DEF ToldOf
  <2>3. CASE job[c].svc # s
    <3>1. screen'[s] = screen[s]
      BY <1>1, <2>1, <2>3
    <3> QED
      BY <1>3, <2>1, <2>3, <3>1 DEF Telling
  <2> QED
    BY <2>2, <2>3
<1>10. ASSUME NEW c \in Calls, Commit(c) PROVE Writing(s)' \/ ToldOf(s)'
  <2>1. /\ pc[c] = "commit" /\ pc'[c] = "idle" /\ screen' = screen
        /\ status' = [status EXCEPT ![job[c].svc] = NewStatus(job[c])]
        /\ \A d \in Calls \ {c} : pc'[d] = pc[d] /\ job'[d] = job[d]
    BY <1>1, <1>10, StatusWritten DEF Commit, Return
  <2>2. CASE job[c].svc = s
    <3>1. ASSUME NEW d \in Calls, d # c, pc[d] \in {"write", "commit"}, job[d].svc = s
          PROVE  FALSE
      <4>1. pc[d] \in Active /\ pc[c] \in Active
        BY <2>1, <3>1 DEF Active, Labels
      <4> QED
        BY <2>2, <3>1, <4>1, Alone DEF Inv2, Inv1
    <3>2. (\A d \in Calls : ~Telling(d, s)') /\ ToldOf(s)
      BY <1>2, <2>1, <3>1 DEF Telling, Writing
    <3>3. status'[s] = NewStatus(job[c]) /\ Telling(c, s)
      BY <1>1, <2>1, <2>2 DEF Telling
    <3> QED
      BY <2>1, <3>2, <3>3 DEF ToldOf
  <2>3. CASE job[c].svc # s
    <3>1. status'[s] = status[s]
      BY <1>1, <2>1, <2>3
    <3> QED
      BY <1>3, <2>1, <2>3, <3>1 DEF Telling
  <2> QED
    BY <2>2, <2>3
<1>11. ASSUME NEW t \in Services, DeleteService(t) PROVE Writing(s)' \/ ToldOf(s)'
  <2>1. t # s
    BY <1>1, <1>11 DEF DeleteService
  <2>2. UNCHANGED <<pc, job, screen>> /\ status'[s] = status[s]
    BY <1>1, <1>11, <2>1 DEF DeleteService
  <2> QED
    BY <1>3, <2>2 DEF Telling
<1>12. CASE Tick \/ UNCHANGED vars
  BY <1>3, <1>12 DEF Tick, vars, Telling
<1> QED
  BY <1>a, <1>5, <1>6, <1>7, <1>8, <1>9, <1>10, <1>11, <1>12 DEF Step

-----------------------------------------------------------------------------
\* The verdict

\* What a window sees when it holds every row of the service.
LEMMA WholeWindow ==
  ASSUME Inv2, NEW s \in Services, AllInWindow(s), NEW t \in 0..MaxTime, t <= now
  PROVE  Recent(s, t) = Rows(s) /\ Failing(s, t) = BadRows(s)
<1>1. ASSUME NEW r \in Rows(s) PROVE InWindow(r, t)
  <2>1. r.at \in Int /\ now \in Int /\ Window \in Int /\ t \in Int
    BY QuorumAssumption, BoundsAssumption DEF Inv2, Inv1, TypeOK, Row, Rows
  <2>2. r.at + Window >= now
    BY DEF AllInWindow
  <2> QED
    BY <2>1, <2>2 DEF InWindow
<1>2. Recent(s, t) = Rows(s)
  BY <1>1 DEF Recent, Rows
<1> QED
  BY <1>2 DEF Failing, BadRows

\* A step that keeps the rows and the status of a service, and moves only calls
\* of other services, keeps its verdict.
LEMMA ElsewhereKeeps ==
  ASSUME NEW s \in Services, AllInWindow(s) /\ ~Uncounted(s) => VerdictOf(s),
         AllInWindow(s)', ~Uncounted(s)', now \in Int, now' \in Int, now' >= now,
         Window \in Int, \A r \in Rows(s) : r.at \in Int,
         Rows(s)' = Rows(s), status'[s] = status[s],
         \A c \in Calls : \/ pc'[c] = pc[c] /\ job'[c] = job[c]
                          \/ job'[c].svc # s /\ (job[c].svc # s \/ pc[c] = "idle")
  PROVE  VerdictOf(s)'
<1>1. AllInWindow(s)
  BY DEF AllInWindow
<1>2. ~Uncounted(s)
  BY DEF Uncounted
<1>3. BadRows(s)' = BadRows(s)
  BY DEF BadRows
<1>4. VerdictOf(s)
  BY <1>1, <1>2
<1>5. ASSUME NEW c \in Calls, job'[c].svc = s PROVE HasCounted(c, s)'
  <2>1. pc'[c] = pc[c] /\ job'[c] = job[c]
    BY <1>5
  <2>2. HasCounted(c, s)
    BY <1>4, <1>5, <2>1 DEF VerdictOf
  <2> QED
    BY <1>3, <2>1, <2>2 DEF HasCounted
<1>6. ASSUME Resting(s)', Rows(s)' # {} PROVE Verdict(s)'
  <2>1. Resting(s)
    BY <1>6 DEF Resting
  <2>2. Verdict(s)
    BY <1>4, <1>6, <2>1 DEF VerdictOf
  <2> QED
    BY <1>3, <2>2 DEF Verdict
<1> QED
  BY <1>5, <1>6 DEF VerdictOf

LEMMA StepCount ==
  ASSUME OneProcess, Inv2, ClockInv, CountInv, [Next]_vars PROVE CountInv'
<1> SUFFICES ASSUME faults' = 0, NEW s \in Services, exists'[s], AllInWindow(s)',
                    ~Uncounted(s)'
             PROVE  VerdictOf(s)'
  BY DEF CountInv
<1> USE DEF dbVars
<1>1. /\ faults = 0 /\ pc \in [Calls -> Labels] /\ job \in [Calls -> Job]
      /\ exists \in [Services -> BOOLEAN] /\ status \in [Services -> Statuses]
      /\ now \in Int /\ Window \in Int /\ checks \subseteq Row
      /\ \A r \in Rows(s) : r.at \in Int
  BY NothingFails, BoundsAssumption, QuorumAssumption DEF Inv2, Inv1, TypeOK, Row, Rows
<1>a. \/ \E c \in Calls, r \in Row : Ingest(c, r)
      \/ \E c \in Calls : Step(c)
      \/ \E t \in Services : DeleteService(t)
      \/ Tick \/ UNCHANGED vars
  BY <1>1, NothingFails
<1>2. exists[s] /\ (AllInWindow(s) /\ ~Uncounted(s) => VerdictOf(s))
  <2>1. exists[s]
    BY <1>1, <1>a DEF Ingest, Step, AskForLock, Acquire, CountTotal, NothingRecent,
       CountFailing, FindOpen, FindMany, Publish, Flush, Commit, Apply, Refused,
       DeleteService, Tick, vars
  <2> QED
    BY <1>1, <2>1 DEF CountInv
\* A call past the lock is the only one of its service that is not at rest.
<1>3. ASSUME NEW c \in Calls, job[c].svc = s, pc[c] \in Active, NEW d \in Calls \ {c},
             job'[d].svc = s, pc'[d] = pc[d], job'[d] = job[d]
      PROVE  pc[d] = "idle"
  <2>1. pc[d] \notin Active
    BY <1>3, Alone DEF Inv2, Inv1
  <2>2. pc[d] \notin {"stored", "waiting"}
    BY <1>3 DEF Uncounted
  <2> QED
    BY <1>1, <2>1, <2>2 DEF Active
<1>4. ASSUME NEW c \in Calls, job[c].svc # s \/ pc[c] = "idle", job'[c].svc # s,
             \A d \in Calls \ {c} : pc'[d] = pc[d] /\ job'[d] = job[d],
             Rows(s)' = Rows(s), now' = now, status'[s] = status[s]
      PROVE  VerdictOf(s)'
  BY <1>1, <1>2, <1>4, ElsewhereKeeps
\* A step of a call past the lock, which then keeps what it has counted.
<1>5. ASSUME NEW c \in Calls, job[c].svc = s, pc[c] \in Active,
             \A d \in Calls \ {c} : pc'[d] = pc[d] /\ job'[d] = job[d],
             job'[c].svc = s, HasCounted(c, s)',
             (pc'[c] = "idle" /\ Rows(s)' # {}) => Verdict(s)'
      PROVE  VerdictOf(s)'
  <2>1. ASSUME NEW d \in Calls, job'[d].svc = s PROVE HasCounted(d, s)'
    <3>1. CASE d = c
      BY <1>5, <3>1
    <3>2. CASE d # c
      <4>1. pc'[d] = "idle"
        BY <1>3, <1>5, <2>1, <3>2
      <4> QED
        BY <4>1 DEF HasCounted
    <3> QED
      BY <3>1, <3>2
  <2>2. Resting(s)' => pc'[c] = "idle"
    BY <1>5 DEF Resting
  <2> QED
    BY <1>5, <2>1, <2>2 DEF VerdictOf
\* Before a step of a call that has counted, the invariant holds of it.
<1>6. ASSUME NEW c \in Calls, job[c].svc = s,
             pc[c] \in {"failing", "incident", "write", "commit"},
             \A d \in Calls \ {c} : pc'[d] = pc[d] /\ job'[d] = job[d],
             UNCHANGED <<checks, now>>
      PROVE  HasCounted(c, s) /\ Rows(s)' = Rows(s) /\ BadRows(s)' = BadRows(s)
  <2>1. Rows(s)' = Rows(s) /\ BadRows(s)' = BadRows(s) /\ AllInWindow(s)
    BY <1>6 DEF Rows, BadRows, AllInWindow
  <2>2. ~Uncounted(s)
    BY <1>6 DEF Uncounted
  <2> QED
    BY <1>2, <1>6, <2>1, <2>2 DEF VerdictOf
<1>7. ASSUME NEW c \in Calls, NEW r \in Row, Ingest(c, r) PROVE VerdictOf(s)'
  <2>1. /\ pc[c] = "idle" /\ job'[c].svc = r.svc /\ pc'[c] = "stored"
        /\ \A d \in Calls \ {c} : pc'[d] = pc[d] /\ job'[d] = job[d]
        /\ checks' = checks \cup {r} /\ UNCHANGED <<now, status>>
    BY <1>1, <1>7 DEF Ingest, Goto, Blank
  <2>2. r.svc # s
    BY <2>1 DEF Uncounted
  <2>3. Rows(s)' = Rows(s)
    BY <2>1, <2>2 DEF Rows
  <2> QED
    BY <1>4, <2>1, <2>2, <2>3
<1>8. ASSUME NEW c \in Calls, Step(c), job[c].svc # s PROVE VerdictOf(s)'
  <2>1. UNCHANGED <<checks, now>>
    BY <1>8 DEF Step, AskForLock, Acquire, CountTotal, NothingRecent, CountFailing, FindOpen,
       FindMany, Publish, Flush, Commit, Apply, Refused
  <2>2. status'[s] = status[s]
    BY <1>1, <1>8 DEF Step, AskForLock, Acquire, CountTotal, NothingRecent, CountFailing,
       FindOpen, FindMany, Publish, Flush, Commit, Apply, Refused
  <2>3. job'[c].svc # s /\ \A d \in Calls \ {c} : pc'[d] = pc[d] /\ job'[d] = job[d]
    <3>1. CASE Acquire(c)
      BY <1>1, <1>8, <3>1 DEF Acquire, Goto, Job
    <3>2. CASE CountTotal(c)
      BY <1>1, <1>8, <3>2 DEF CountTotal, Goto, Job
    <3>3. CASE CountFailing(c)
      BY <1>1, <1>8, <3>3 DEF CountFailing, Goto, Job
    <3>4. CASE FindOpen(c)
      BY <1>1, <1>8, <3>4 DEF FindOpen, Goto, Job
    <3>5. CASE Publish(c)
      BY <1>1, <1>8, <3>5 DEF Publish, Flush, Goto
    <3>6. CASE Return(c)
      BY <1>1, <1>8, <3>6 DEF Return, Blank
    <3>7. CASE AskForLock(c)
      BY <1>1, <1>8, <3>7 DEF AskForLock
    <3> QED
      BY <1>8, <3>1, <3>2, <3>3, <3>4, <3>5, <3>6, <3>7
         DEF Step, NothingRecent, FindMany, Commit, Refused
  <2>4. Rows(s)' = Rows(s)
    BY <2>1 DEF Rows
  <2> QED
    BY <1>4, <1>8, <2>1, <2>2, <2>3, <2>4
<1>21. ASSUME NEW c \in Calls, AskForLock(c), job[c].svc = s PROVE FALSE
  <2>1. pc'[c] = "waiting" /\ job' = job
    BY <1>1, <1>21 DEF AskForLock
  <2> QED
    BY <1>21, <2>1 DEF Uncounted
<1>9. ASSUME NEW c \in Calls, Acquire(c), job[c].svc = s PROVE FALSE
  <2>1. pc'[c] = "total" /\ job'[c].svc = s
    BY <1>1, <1>9 DEF Acquire, Goto, Job
  <2> QED
    BY <2>1 DEF Uncounted
<1>10. ASSUME NEW c \in Calls, job[c].svc = s, pc[c] \in Active, UNCHANGED <<checks, now>>
       PROVE  /\ Recent(s, job[c].clock) = Rows(s) /\ Failing(s, job[c].clock) = BadRows(s)
              /\ Rows(s)' = Rows(s) /\ BadRows(s)' = BadRows(s)
  <2>1. AllInWindow(s) /\ Rows(s)' = Rows(s) /\ BadRows(s)' = BadRows(s)
    BY <1>10 DEF AllInWindow, Rows, BadRows
  <2>2. job[c].clock \in 0..MaxTime /\ job[c].clock <= now
    BY <1>1, <1>10 DEF Job, ClockInv
  <2> QED
    BY <2>1, <2>2, WholeWindow
<1>11. ASSUME NEW c \in Calls, CountTotal(c), job[c].svc = s PROVE VerdictOf(s)'
  <2>1. /\ pc[c] \in Active /\ pc'[c] = "failing" /\ UNCHANGED <<checks, now>>
        /\ \A d \in Calls \ {c} : pc'[d] = pc[d] /\ job'[d] = job[d]
    BY <1>1, <1>11 DEF CountTotal, Goto, Active, Labels
  <2>2. job'[c].svc = s /\ job'[c].total = Cardinality(Recent(s, job[c].clock))
    BY <1>1, <1>11 DEF CountTotal, Job
  <2>3. HasCounted(c, s)'
    BY <1>10, <1>11, <2>1, <2>2 DEF HasCounted
  <2> QED
    BY <1>5, <1>11, <2>1, <2>2, <2>3
<1>12. ASSUME NEW c \in Calls, NothingRecent(c), job[c].svc = s PROVE VerdictOf(s)'
  <2>1. /\ pc[c] \in Active /\ pc'[c] = "idle" /\ UNCHANGED <<checks, now>>
        /\ \A d \in Calls \ {c} : pc'[d] = pc[d] /\ job'[d] = job[d]
        /\ job'[c].svc = s
        /\ Recent(s, job[c].clock) = {}
    BY <1>1, <1>12 DEF NothingRecent, Return, Blank, Active, Labels
  <2>2. Rows(s)' = {}
    BY <1>10, <1>12, <2>1
  <2>3. HasCounted(c, s)'
    BY <2>1 DEF HasCounted
  <2> QED
    BY <1>5, <1>12, <2>1, <2>2, <2>3
<1>13. ASSUME NEW c \in Calls, CountFailing(c), job[c].svc = s PROVE VerdictOf(s)'
  <2>1. /\ pc[c] = "failing" /\ pc[c] \in Active /\ pc'[c] = "incident"
        /\ UNCHANGED <<checks, now>>
        /\ \A d \in Calls \ {c} : pc'[d] = pc[d] /\ job'[d] = job[d]
    BY <1>1, <1>13 DEF CountFailing, Goto, Active, Labels
  <2>2. /\ job'[c].svc = s /\ job'[c].total = job[c].total
        /\ job'[c].failing = Cardinality(Failing(s, job[c].clock))
    BY <1>1, <1>13 DEF CountFailing, Job
  <2>3. HasCounted(c, s)
    BY <1>6, <1>13, <2>1
  <2>4. job[c].total = Cardinality(Rows(s))
    BY <2>1, <2>3 DEF HasCounted
  <2>5. HasCounted(c, s)'
    BY <1>10, <1>13, <2>1, <2>2, <2>4 DEF HasCounted
  <2> QED
    BY <1>5, <1>13, <2>1, <2>2, <2>5
<1>14. ASSUME NEW c \in Calls, FindOpen(c) \/ Publish(c), job[c].svc = s PROVE VerdictOf(s)'
  <2>1. /\ pc[c] \in {"incident", "write"} /\ pc[c] \in Active
        /\ pc'[c] \in {"write", "commit"}
        /\ UNCHANGED <<checks, now>>
        /\ \A d \in Calls \ {c} : pc'[d] = pc[d] /\ job'[d] = job[d]
    BY <1>1, <1>14 DEF FindOpen, Publish, Flush, Goto, Active, Labels
  <2>2. job'[c].svc = s /\ job'[c].total = job[c].total /\ job'[c].failing = job[c].failing
    BY <1>1, <1>14 DEF FindOpen, Publish, Flush, Job
  <2>3. HasCounted(c, s) /\ Rows(s)' = Rows(s) /\ BadRows(s)' = BadRows(s)
    BY <1>6, <1>14, <2>1
  <2>4. HasCounted(c, s)'
    BY <2>1, <2>2, <2>3 DEF HasCounted
  <2> QED
    BY <1>5, <1>14, <2>1, <2>2, <2>4
<1>15. ASSUME NEW c \in Calls, FindMany(c), job[c].svc = s PROVE FALSE
  <2>1. open[s] \subseteq {opened[s]} /\ Cardinality(open[s]) > 1
    BY <1>15 DEF FindMany, Inv2, LastOpen
  <2>2. open[s] = {} \/ open[s] = {opened[s]}
    BY <2>1
  <2>3. Cardinality({}) = 0
    BY FS_EmptySet
  <2>4. Cardinality({opened[s]}) = 1
    BY FS_Singleton
  <2> QED
    BY <2>1, <2>2, <2>3, <2>4
<1>16. ASSUME NEW c \in Calls, Commit(c), job[c].svc = s PROVE VerdictOf(s)'
  <2>1. /\ pc[c] = "commit" /\ pc[c] \in Active /\ pc'[c] = "idle"
        /\ UNCHANGED <<checks, now>>
        /\ \A d \in Calls \ {c} : pc'[d] = pc[d] /\ job'[d] = job[d]
        /\ job'[c].svc = s
        /\ status'[s] = NewStatus(job[c])
    BY <1>1, <1>16, StatusWritten DEF Commit, Apply, Return, Blank, Active, Labels
  <2>2. HasCounted(c, s) /\ Rows(s)' = Rows(s) /\ BadRows(s)' = BadRows(s)
    BY <1>6, <1>16, <2>1
  <2>3. job[c].total = Cardinality(Rows(s)) /\ job[c].failing = Cardinality(BadRows(s))
    BY <2>1, <2>2 DEF HasCounted
  <2>4. status'[s] = "down" <=> IsQuorumDown(Cardinality(BadRows(s)), Cardinality(Rows(s)))
    BY <2>1, <2>3 DEF NewStatus, Down
  <2>5. Verdict(s)'
    BY <2>2, <2>4 DEF Verdict
  <2>6. HasCounted(c, s)'
    BY <2>1 DEF HasCounted
  <2> QED
    BY <1>5, <1>16, <2>1, <2>5, <2>6
<1>17. ASSUME NEW c \in Calls, Refused(c), job[c].svc = s PROVE FALSE
  BY <1>2, <1>17 DEF Refused
<1>18. ASSUME NEW t \in Services, DeleteService(t) PROVE VerdictOf(s)'
  <2>1. t # s
    BY <1>1, <1>18 DEF DeleteService
  <2>2. UNCHANGED <<pc, job, now>> /\ status'[s] = status[s]
    BY <1>1, <1>18, <2>1 DEF DeleteService
  <2>3. Rows(s)' = Rows(s)
    BY <1>18, <2>1 DEF DeleteService, Rows
  <2> QED
    BY <1>1, <1>2, <2>2, <2>3, ElsewhereKeeps
<1>19. CASE Tick \/ UNCHANGED vars
  <2>1. UNCHANGED <<pc, job, status, checks>> /\ now' \in Int /\ now' >= now
    BY <1>1, <1>19 DEF Tick, vars
  <2>2. Rows(s)' = Rows(s)
    BY <2>1 DEF Rows
  <2> QED
    BY <1>1, <1>2, <2>1, <2>2, ElsewhereKeeps
<1>20. ASSUME NEW c \in Calls, Step(c) PROVE VerdictOf(s)'
  BY <1>8, <1>9, <1>11, <1>12, <1>13, <1>14, <1>15, <1>16, <1>17, <1>20, <1>21
     DEF Step
<1> QED
  BY <1>a, <1>7, <1>18, <1>19, <1>20

-----------------------------------------------------------------------------

LEMMA Inv3Init == Init => Inv3
<1> SUFFICES ASSUME Init PROVE Inv3
  OBVIOUS
<1>1. ClockInv
  BY DEF Init, ClockInv, Active
<1>3. CountInv
  <2> SUFFICES ASSUME NEW s \in Services PROVE VerdictOf(s)
    BY DEF CountInv
  <2>1. Rows(s) = {}
    BY DEF Init, Rows
  <2>2. \A c \in Calls : HasCounted(c, s)
    BY DEF Init, HasCounted
  <2> QED
    BY <2>1, <2>2 DEF VerdictOf
<1> QED
  BY <1>1, <1>3, Inv2Init DEF Inv3

\* The inductive invariant of one process, with what the calls have counted.
THEOREM OneProcessCounts == ASSUME OneProcess PROVE Spec => []Inv3
<1>1. Inv3 /\ [Next]_vars => Inv3'
  <2> SUFFICES ASSUME Inv3, [Next]_vars PROVE Inv3'
    OBVIOUS
  <2>1. Inv2'
    BY Inv2Next DEF Inv3
  <2>2. ClockInv'
    BY StepClock DEF Inv3
  <2>4. CountInv'
    BY StepCount DEF Inv3
  <2> QED
    BY <2>1, <2>2, <2>4 DEF Inv3
<1> QED
  BY <1>1, Inv3Init, PTL DEF Spec

\* With one coordinator process, whatever has failed before: once an evaluation
\* of a service writes, and until something fails again, the dashboards agree
\* with the status row whenever no call of the service runs.
THEOREM ScreenRepaired == ASSUME OneProcess PROVE Spec => EvaluationRepairsScreen
<1> SUFFICES ASSUME NEW s \in Services, NEW k \in 0..MaxFaults
             PROVE  Spec => [](Writing(s) /\ faults = k =>
                                [](faults = k /\ Resting(s) /\ exists[s] => screen[s] = status[s]))
  BY DEF EvaluationRepairsScreen
<1>0. k \in Nat
  BY BoundsAssumption
<1>1. Writing(s) /\ faults = k => RepairedSince(s, k)
  BY <1>0 DEF RepairedSince
<1>2. Inv2 /\ RepairedSince(s, k) /\ [Next]_vars => RepairedSince(s, k)'
  BY <1>0, StepRepaired
<1>3. RepairedSince(s, k) => (faults = k /\ Resting(s) /\ exists[s] => screen[s] = status[s])
  <2> SUFFICES ASSUME RepairedSince(s, k), faults = k, Resting(s), exists[s]
               PROVE  screen[s] = status[s]
    OBVIOUS
  <2>1. ~Writing(s) /\ \A c \in Calls : ~Telling(c, s)
    BY DEF Resting, Telling, Writing
  <2> QED
    BY <2>1 DEF RepairedSince, ToldOf
<1> QED
  BY <1>1, <1>2, <1>3, OneProcessInvariant, PTL DEF Spec

\* With one coordinator process, no failure and nothing older than the window,
\* the status is the quorum's verdict over every stored result whenever no
\* call of the service runs, in whatever order results and calls came.
THEOREM VerdictIsOfAll == ASSUME OneProcess PROVE Spec => []QuiescentVerdict
<1>1. Inv3 => QuiescentVerdict
  <2> SUFFICES ASSUME Inv3, faults = 0, NEW s \in Services, Resting(s), exists[s],
                      Rows(s) # {}, \A r \in Rows(s) : r.at + Window >= now
               PROVE  status[s] = "down" <=>
                        Cardinality(BadRows(s)) * QuorumDen >= QuorumNum * Cardinality(Rows(s))
    BY DEF QuiescentVerdict, Rows, BadRows
  <2>1. AllInWindow(s)
    BY DEF AllInWindow
  <2>2. ~Uncounted(s)
    BY DEF Resting, Uncounted
  <2>3. VerdictOf(s)
    BY <2>1, <2>2 DEF Inv3, CountInv
  <2> QED
    BY <2>3 DEF VerdictOf, Verdict, IsQuorumDown
<1> QED
  BY <1>1, OneProcessCounts, PTL

-----------------------------------------------------------------------------
\* Incidents are outages

\* What the commit of a call does is what the ledger of outages allows.
LEMMA ApplyIsOutageStep ==
  ASSUME Inv2, NEW c \in Calls, pc[c] = "commit", exists[job[c].svc], Apply(c)
  PROVE  Outages!LedgerNext
<1> PICK s \in Services : s = job[c].svc
  BY DEF Inv2, Inv1, TypeOK, Job
<1>1. /\ opened \in [Services -> Nat] /\ open \in [Services -> SUBSET Nat]
      /\ status \in [Services -> Statuses]
      /\ status[s] = "down" <=> open[s] # {}
  BY DEF Inv2, Inv1, TypeOK, StatusMatchesIncident
<1>2. /\ status' = [status EXCEPT ![s] = NewStatus(job[c])]
      /\ opened' = [opened EXCEPT ![s] = opened'[s]]
      /\ open' = [open EXCEPT ![s] = open'[s]]
  BY <1>1, StatusWritten DEF Apply
<1>3. job[c].seen = open[s] /\ open[s] \subseteq {opened[s]}
  BY DEF Inv2, SeenInv, LastOpen
<1>4. CASE Down(job[c])
  <2>1. status' = [status EXCEPT ![s] = "down"]
    BY <1>2, <1>4 DEF NewStatus
  <2>2. CASE open[s] = {}
    <3>1. Opens(job[c]) /\ status[s] # "down"
      BY <1>1, <1>3, <1>4, <2>2 DEF Opens
    <3>2. opened'[s] = opened[s] + 1 /\ open'[s] = {opened[s] + 1}
      BY <3>1, ApplyEffect
    <3>3. Outages!FindDown(s)
      BY <1>2, <2>1, <3>1, <3>2 DEF Outages!FindDown
    <3> QED
      BY <3>3 DEF Outages!LedgerNext
  <2>3. CASE open[s] # {}
    <3>1. ~Opens(job[c]) /\ ~Resolves(job[c]) /\ status[s] = "down"
      BY <1>1, <1>3, <1>4, <2>3 DEF Opens, Resolves
    <3>2. opened'[s] = opened[s] /\ open'[s] = {opened[s]}
      BY <1>3, <2>3, <3>1, ApplyEffect
    <3>3. Outages!FindDown(s)
      BY <1>2, <2>1, <3>1, <3>2 DEF Outages!FindDown
    <3> QED
      BY <3>3 DEF Outages!LedgerNext
  <2> QED
    BY <2>2, <2>3
<1>5. CASE ~Down(job[c])
  <2>1. status' = [status EXCEPT ![s] = "up"]
    BY <1>2, <1>5 DEF NewStatus
  <2>2. opened'[s] = opened[s] /\ open'[s] = {}
    <3>1. ~Opens(job[c])
      BY <1>5 DEF Opens
    <3>2. ~Resolves(job[c]) => open[s] = {}
      BY <1>3, <1>5 DEF Resolves
    <3>3. CASE Resolves(job[c])
      BY <3>3, ApplyEffect
    <3>4. CASE ~Resolves(job[c])
      BY <1>3, <3>1, <3>2, <3>4, ApplyEffect
    <3> QED
      BY <3>3, <3>4
  <2>3. opened' = opened
    <3>1. opened' = [opened EXCEPT ![s] = opened[s]]
      BY <1>2, <2>2
    <3>2. [opened EXCEPT ![s] = opened[s]] = opened
      BY <1>1
    <3> QED
      BY <3>1, <3>2
  <2>4. Outages!FindUp(s)
    BY <1>2, <2>1, <2>2, <2>3 DEF Outages!FindUp
  <2> QED
    BY <2>4 DEF Outages!LedgerNext
<1> QED
  BY <1>4, <1>5

\* Every step of the detector is a step of the ledger or leaves it alone.
LEMMA OutageStep == Inv2 /\ [Next]_vars => [Outages!LedgerNext]_<<status, opened, open>>
<1> SUFFICES ASSUME Inv2, [Next]_vars PROVE [Outages!LedgerNext]_<<status, opened, open>>
  OBVIOUS
<1>1. ASSUME NEW c \in Calls, Commit(c) \/ CommitLost(c) PROVE Outages!LedgerNext
  BY <1>1, ApplyIsOutageStep DEF Commit, CommitLost
<1>2. ASSUME NEW s \in Services, DeleteService(s) PROVE Outages!LedgerNext
  <2>1. Outages!Forget(s)
    BY <1>2 DEF DeleteService, Outages!Forget
  <2> QED
    BY <2>1 DEF Outages!LedgerNext
<1> QED
  BY <1>1, <1>2 DEF Next, Ingest, Step, AskForLock, Acquire, CountTotal, NothingRecent,
     CountFailing, FindOpen, FindMany, Publish, Refused, Fault, Fail, PublishFailed, Crash, Flush, Tick,
     vars, dbVars

\* In one process the detector implements the ledger of outages: an incident
\* is opened when the status turns to "down", under a new id, and is open until
\* the status changes, whatever calls, faults, crashes and deletions interleave
\* with the reads the decision rests on (detector.py:75-94).
THEOREM RefinesOutages == ASSUME OneProcess PROVE Spec => ImplementsOutages
<1>1. Init => Outages!LedgerInit
  BY DEF Init, Outages!LedgerInit
<1>2. Inv2 /\ [Next]_vars => [Outages!LedgerNext]_<<status, opened, open>>
  BY OutageStep
<1> QED
  BY <1>1, <1>2, OneProcessInvariant, PTL
     DEF Spec, ImplementsOutages, Outages!LedgerSpec, Outages!ledger

=============================================================================
