---------------------------- MODULE DetectorProofs ----------------------------
(***************************************************************************)
(* Proofs about Detector: for every number of processes its types, that     *)
(* verdicts rest on results and that open incidents are no more than the    *)
(* processes; and, in one process, that the per-service lock keeps          *)
(* incidents, status and alert tasks consistent.                            *)
(***************************************************************************)
EXTENDS Detector, FiniteSetTheorems, TLAPS

Active == Labels \ {"idle", "stored", "waiting"}

\* A call past Acquire holds the lock of its service.
LockInv == \A c \in Calls : pc[c] \in Active => HoldsLock(c)

Inv1 ==
  /\ TypeOK
  /\ IsFiniteSet(checks)
  /\ LockInv

\* A blank job is a job.
LEMMA BlankType == ASSUME NEW s \in Services PROVE Blank(s) \in Job /\ Blank(s).svc = s
  BY BoundsAssumption DEF Blank, Job

\* What a call may see in the window can be counted.
LEMMA CountsAreNat ==
  ASSUME IsFiniteSet(checks), NEW s, NEW t
  PROVE  /\ Cardinality(Recent(s, t)) \in Nat
         /\ Cardinality(Failing(s, t)) \in Nat
<1>1. Recent(s, t) \subseteq checks /\ Failing(s, t) \subseteq checks
  BY DEF Recent, Failing
<1>2. IsFiniteSet(Recent(s, t)) /\ IsFiniteSet(Failing(s, t))
  BY <1>1, FS_Subset
<1> QED
  BY <1>2, FS_CardinalityType

\* Leaving the coroutine hands the lock on and disturbs no other call.
LEMMA ReturnKeeps ==
  ASSUME TypeOK, LockInv, NEW c \in Calls, pc[c] \in Active, Return(c)
  PROVE  /\ queue' \in [Processes -> [Services -> Seq(Calls)]]
         /\ pc' \in [Calls -> Labels]
         /\ job' \in [Calls -> Job]
         /\ LockInv'
<1> DEFINE p == ProcessOf[c]
           s == job[c].svc
<1>1. p \in Processes /\ s \in Services
  BY SystemAssumption DEF TypeOK, Job
<1>2. LockOf(c) \in Seq(Calls) /\ LockOf(c) # <<>> /\ Head(LockOf(c)) = c
  BY <1>1 DEF TypeOK, LockInv, HoldsLock, LockOf
<1>3. Tail(queue[p][s]) \in Seq(Calls)
  BY <1>2 DEF LockOf
<1>4. queue' \in [Processes -> [Services -> Seq(Calls)]]
  BY <1>1, <1>3 DEF Return, Release, TypeOK
<1>5. pc' \in [Calls -> Labels] /\ job' \in [Calls -> Job]
  BY <1>1, BlankType DEF Return, TypeOK, Labels
<1>6. LockInv'
  <2> SUFFICES ASSUME NEW d \in Calls, pc'[d] \in Active PROVE HoldsLock(d)'
    BY DEF LockInv
  <2>1. d # c /\ pc[d] \in Active /\ job'[d] = job[d]
    BY DEF Return, TypeOK, Active
  <2>2. HoldsLock(d) /\ ProcessOf[d] \in Processes /\ job[d].svc \in Services
    BY <2>1, SystemAssumption DEF LockInv, TypeOK, Job
  <2>3. ~(ProcessOf[d] = p /\ job[d].svc = s)
    BY <1>2, <2>1, <2>2 DEF HoldsLock, LockOf
  <2>4. queue'[ProcessOf[d]][job[d].svc] = queue[ProcessOf[d]][job[d].svc]
    BY <1>1, <2>2, <2>3 DEF Return, Release, TypeOK
  <2> QED
    BY <2>1, <2>2, <2>4 DEF HoldsLock, LockOf
<1> QED
  BY <1>4, <1>5, <1>6

\* A step from one await to the next keeps the lock.
LEMMA GotoKeeps ==
  ASSUME TypeOK, LockInv, NEW c \in Calls, NEW label \in Labels, Goto(c, label),
         pc[c] \in Active \/ HoldsLock(c),
         job' \in [Calls -> Job],
         \A d \in Calls : job'[d].svc = job[d].svc
  PROVE  /\ queue' \in [Processes -> [Services -> Seq(Calls)]]
         /\ pc' \in [Calls -> Labels]
         /\ LockInv'
<1>1. queue' = queue /\ pc' = [pc EXCEPT ![c] = label]
  BY DEF Goto
<1>2. \A d \in Calls : HoldsLock(d) => HoldsLock(d)'
  BY <1>1 DEF HoldsLock, LockOf
<1>3. \A d \in Calls : pc'[d] \in Active => HoldsLock(d)
  BY <1>1 DEF LockInv, TypeOK
<1> QED
  BY <1>1, <1>2, <1>3 DEF LockInv, TypeOK

\* What a commit writes has the types of the database.
LEMMA ApplyType ==
  ASSUME TypeOK, NEW c \in Calls, Apply(c)
  PROVE  /\ open' \in [Services -> SUBSET Nat]
         /\ opened' \in [Services -> Nat]
         /\ status' \in [Services -> Statuses]
         /\ exists' = exists /\ checks' = checks
<1>1. job[c].svc \in Services /\ job[c].seen \in SUBSET Nat
  BY DEF TypeOK, Job
<1>2. OpenAfter(job[c], job[c].svc) \in SUBSET Nat
  BY <1>1 DEF OpenAfter, TypeOK
<1>3. NewStatus(job[c]) \in Statuses
  BY DEF NewStatus, Statuses
<1> QED
  BY <1>1, <1>2, <1>3 DEF Apply, TypeOK

\* A commit announces at most a well-formed notice.
LEMMA AnnouncesType ==
  ASSUME TypeOK, NEW c \in Calls
  PROVE  Announces(job[c], job[c].svc) \in Seq(Notice)
<1>1. job[c].svc \in Services /\ job[c].seen \in SUBSET Nat
  BY DEF TypeOK, Job
<1>2. opened[job[c].svc] + 1 \in Nat
  BY <1>1 DEF TypeOK
<1>3. Resolves(job[c]) => (CHOOSE i \in job[c].seen : TRUE) \in Nat
  BY <1>1 DEF Resolves
<1>4. CASE Opens(job[c])
  <2>1. [event |-> "opened", id |-> opened[job[c].svc] + 1] \in Notice
    BY <1>2 DEF Notice
  <2> QED
    BY <1>4, <2>1 DEF Announces
<1>5. CASE ~Opens(job[c]) /\ Resolves(job[c])
  <2> DEFINE id == CHOOSE i \in job[c].seen : TRUE
  <2>1. id \in Nat
    BY <1>3, <1>5
  <2>2. Announces(job[c], job[c].svc) = <<[event |-> "resolved", id |-> id]>>
    BY <1>5 DEF Announces
  <2> HIDE DEF id
  <2>3. [event |-> "resolved", id |-> id] \in Notice
    BY <2>1 DEF Notice
  <2> QED
    BY <2>2, <2>3
<1>6. CASE ~Opens(job[c]) /\ ~Resolves(job[c])
  BY <1>6 DEF Announces
<1> QED
  BY <1>4, <1>5, <1>6

-----------------------------------------------------------------------------
\* Types and locks

\* At the start nobody holds or waits for a lock.
LEMMA Inv1Init == Init => Inv1
<1> SUFFICES ASSUME Init PROVE Inv1
  OBVIOUS
<1>1. (CHOOSE s \in Services : TRUE) \in Services
  BY SystemAssumption
<1>2. job \in [Calls -> Job]
  BY <1>1, BlankType DEF Init
<1>3. TypeOK
  BY <1>2, BoundsAssumption DEF Init, TypeOK, Labels, Statuses
<1>4. IsFiniteSet(checks)
  BY FS_EmptySet DEF Init
<1>5. LockInv
  BY DEF Init, LockInv, Active
<1> QED
  BY <1>3, <1>4, <1>5 DEF Inv1

\* The status a call has loaded is a status.
LEMMA LoadedNext ==
  ASSUME TypeOK, [Next]_vars PROVE loaded' \in [Calls -> Statuses]
<1>1. loaded \in [Calls -> Statuses] /\ "unknown" \in Statuses
  BY DEF TypeOK, Statuses
<1>2. ASSUME NEW c \in Calls, Flush(c) PROVE loaded' \in [Calls -> Statuses]
  <2>1. job[c].svc \in Services
    BY DEF TypeOK, Job
  <2>2. status[job[c].svc] \in Statuses
    BY <2>1 DEF TypeOK
  <2> QED
    BY <1>1, <1>2, <2>2 DEF Flush
<1>3. ASSUME NEW c \in Calls, Return(c) PROVE loaded' \in [Calls -> Statuses]
  BY <1>1, <1>3 DEF Return
<1>4. ASSUME NEW p \in Processes, Crash(p) PROVE loaded' \in [Calls -> Statuses]
  BY <1>1, <1>4 DEF Crash
<1> QED
  BY <1>1, <1>2, <1>3, <1>4
     DEF Next, Ingest, Step, AskForLock, Acquire, CountTotal, NothingRecent, CountFailing,
         FindOpen, FindMany, Publish, Commit, Refused, DeleteService, Fault, Fail,
         PublishFailed, CommitLost, Tick, vars

\* Every step keeps the types, and the locks with the calls that hold them.
LEMMA Inv1Next == Inv1 /\ [Next]_vars => Inv1'
<1> SUFFICES ASSUME Inv1, [Next]_vars PROVE Inv1'
  OBVIOUS
<1> USE DEF Inv1
<1>0. ASSUME NEW c \in Calls PROVE job[c] \in Job
  BY <1>0 DEF TypeOK
<1>t. loaded' \in [Calls -> Statuses]
  BY LoadedNext
<1> USE <1>t
<1>1. ASSUME NEW c \in Calls, NEW r \in Row, Ingest(c, r) PROVE Inv1'
  <2>1. r.svc \in Services
    BY DEF Row
  <2>2. job' \in [Calls -> Job]
    BY <1>1, <2>1, BlankType DEF Ingest, TypeOK
  <2>3. TypeOK'
    BY <1>1, <2>2 DEF Ingest, Goto, TypeOK, Labels
  <2>4. IsFiniteSet(checks')
    BY <1>1, FS_AddElement DEF Ingest
  <2>5. LockInv'
    <3> SUFFICES ASSUME NEW d \in Calls, pc'[d] \in Active PROVE HoldsLock(d)'
      BY DEF LockInv
    <3>1. d # c /\ pc[d] \in Active /\ job'[d] = job[d] /\ queue' = queue
      BY <1>1 DEF Ingest, Goto, TypeOK, Active
    <3> QED
      BY <3>1 DEF LockInv, HoldsLock, LockOf
  <2> QED
    BY <2>3, <2>4, <2>5
<1>19. ASSUME NEW c \in Calls, AskForLock(c) PROVE Inv1'
  <2> DEFINE s == job[c].svc
  <2>1. s \in Services /\ ProcessOf[c] \in Processes
    BY SystemAssumption DEF TypeOK, Job
  <2>2. Append(queue[ProcessOf[c]][s], c) \in Seq(Calls)
    BY <2>1 DEF TypeOK
  <2>3. TypeOK' /\ IsFiniteSet(checks')
    BY <1>19, <2>1, <2>2 DEF AskForLock, TypeOK, Labels, dbVars
  <2>4. LockInv'
    <3> SUFFICES ASSUME NEW d \in Calls, pc'[d] \in Active PROVE HoldsLock(d)'
      BY DEF LockInv
    <3>1. pc[d] \in Active /\ job' = job
      BY <1>19 DEF AskForLock, TypeOK, Active
    <3>2. HoldsLock(d) /\ ProcessOf[d] \in Processes /\ job[d].svc \in Services
      BY <3>1, SystemAssumption DEF LockInv, TypeOK, Job
    <3>3. CASE ProcessOf[d] = ProcessOf[c] /\ job[d].svc = s
      <4>1. queue'[ProcessOf[d]][job[d].svc] = Append(queue[ProcessOf[d]][job[d].svc], c)
        BY <1>19, <2>1, <3>3 DEF AskForLock, TypeOK
      <4>2. queue[ProcessOf[d]][job[d].svc] \in Seq(Calls)
        BY <3>2 DEF TypeOK
      <4> QED
        BY <3>1, <3>2, <4>1, <4>2 DEF HoldsLock, LockOf
    <3>4. CASE ~(ProcessOf[d] = ProcessOf[c] /\ job[d].svc = s)
      <4>1. queue'[ProcessOf[d]][job[d].svc] = queue[ProcessOf[d]][job[d].svc]
        BY <1>19, <2>1, <3>2, <3>4 DEF AskForLock, TypeOK
      <4> QED
        BY <3>1, <3>2, <4>1 DEF HoldsLock, LockOf
    <3> QED
      BY <3>3, <3>4
  <2> QED
    BY <2>3, <2>4
<1>2. ASSUME NEW c \in Calls, Acquire(c) PROVE Inv1'
  <2>1. job' \in [Calls -> Job] /\ \A d \in Calls : job'[d].svc = job[d].svc
    BY <1>2 DEF Acquire, TypeOK, Job
  <2>2. "total" \in Labels
    BY DEF Labels
  <2>3. /\ queue' \in [Processes -> [Services -> Seq(Calls)]]
        /\ pc' \in [Calls -> Labels]
        /\ LockInv'
    BY <1>2, <2>1, <2>2, GotoKeeps DEF Acquire
  <2> QED
    BY <1>2, <2>1, <2>3 DEF Acquire, TypeOK, dbVars
<1>3. ASSUME NEW c \in Calls, CountTotal(c) PROVE Inv1'
  <2>1. Cardinality(Recent(job[c].svc, job[c].clock)) \in Nat
    BY CountsAreNat
  <2>2. job' \in [Calls -> Job] /\ \A d \in Calls : job'[d].svc = job[d].svc
    BY <1>3, <2>1 DEF CountTotal, TypeOK, Job
  <2>3. "failing" \in Labels /\ pc[c] \in Active
    BY <1>3 DEF CountTotal, Labels, Active
  <2>4. /\ queue' \in [Processes -> [Services -> Seq(Calls)]]
        /\ pc' \in [Calls -> Labels]
        /\ LockInv'
    BY <1>3, <2>2, <2>3, GotoKeeps DEF CountTotal
  <2> QED
    BY <1>3, <2>2, <2>4 DEF CountTotal, TypeOK, dbVars
<1>4. ASSUME NEW c \in Calls, NothingRecent(c) PROVE Inv1'
  <2>1. pc[c] \in Active /\ Return(c)
    BY <1>4 DEF NothingRecent, Labels, Active
  <2> QED
    BY <1>4, <2>1, ReturnKeeps DEF NothingRecent, TypeOK, dbVars
<1>5. ASSUME NEW c \in Calls, CountFailing(c) PROVE Inv1'
  <2>1. Cardinality(Failing(job[c].svc, job[c].clock)) \in Nat
    BY CountsAreNat
  <2>2. job' \in [Calls -> Job] /\ \A d \in Calls : job'[d].svc = job[d].svc
    BY <1>5, <2>1 DEF CountFailing, TypeOK, Job
  <2>3. "incident" \in Labels /\ pc[c] \in Active
    BY <1>5 DEF CountFailing, Labels, Active
  <2>4. /\ queue' \in [Processes -> [Services -> Seq(Calls)]]
        /\ pc' \in [Calls -> Labels]
        /\ LockInv'
    BY <1>5, <2>2, <2>3, GotoKeeps DEF CountFailing
  <2> QED
    BY <1>5, <2>2, <2>4 DEF CountFailing, TypeOK, dbVars
<1>6. ASSUME NEW c \in Calls, FindOpen(c) PROVE Inv1'
  <2>1. open[job[c].svc] \in SUBSET Nat
    BY DEF TypeOK, Job
  <2>2. job' \in [Calls -> Job] /\ \A d \in Calls : job'[d].svc = job[d].svc
    BY <1>6, <2>1 DEF FindOpen, TypeOK, Job
  <2>3. "write" \in Labels /\ pc[c] \in Active
    BY <1>6 DEF FindOpen, Labels, Active
  <2>4. /\ queue' \in [Processes -> [Services -> Seq(Calls)]]
        /\ pc' \in [Calls -> Labels]
        /\ LockInv'
    BY <1>6, <2>2, <2>3, GotoKeeps DEF FindOpen
  <2> QED
    BY <1>6, <2>2, <2>4 DEF FindOpen, TypeOK, dbVars
<1>7. ASSUME NEW c \in Calls, FindMany(c) PROVE Inv1'
  <2>1. pc[c] \in Active /\ Return(c)
    BY <1>7 DEF FindMany, Labels, Active
  <2> QED
    BY <1>7, <2>1, ReturnKeeps DEF FindMany, TypeOK, dbVars
<1>8. ASSUME NEW c \in Calls, Flush(c) PROVE
              /\ queue' \in [Processes -> [Services -> Seq(Calls)]]
              /\ pc' \in [Calls -> Labels]
              /\ LockInv'
  <2>1. "commit" \in Labels /\ pc[c] \in Active /\ job' = job
    BY <1>8 DEF Flush, Labels, Active
  <2> QED
    BY <1>8, <2>1, GotoKeeps DEF Flush, TypeOK
<1>9. ASSUME NEW c \in Calls, Publish(c) PROVE Inv1'
  <2>1. NewStatus(job[c]) \in Statuses
    BY DEF NewStatus, Statuses
  <2>2. screen' \in [Services -> Statuses]
    BY <1>9, <2>1 DEF Publish, TypeOK
  <2> QED
    BY <1>9, <1>8, <2>2 DEF Publish, Flush, TypeOK, dbVars
<1>10. ASSUME NEW c \in Calls, PublishFailed(c) PROVE Inv1'
  <2>1. Flush(c) /\ screen' = screen
    BY <1>10 DEF PublishFailed
  <2>2. faults' \in 0..MaxFaults
    BY <1>10, BoundsAssumption DEF PublishFailed, TypeOK
  <2> QED
    BY <1>8, <2>1, <2>2 DEF Flush, TypeOK, dbVars
<1>11. ASSUME NEW c \in Calls, Commit(c) PROVE Inv1'
  <2>1. pc[c] \in Active /\ Return(c) /\ Apply(c) /\ job[c].svc \in Services
    BY <1>11 DEF Commit, Labels, Active, TypeOK, Job
  <2>2. notices[job[c].svc] \o Announces(job[c], job[c].svc) \in Seq(Notice)
    BY <2>1, AnnouncesType DEF TypeOK
  <2>3. notices' \in [Services -> Seq(Notice)]
    BY <1>11, <2>2 DEF Commit, TypeOK
  <2> QED
    BY <1>11, <2>1, <2>3, ApplyType, ReturnKeeps DEF Commit, TypeOK
<1>12. ASSUME NEW c \in Calls, CommitLost(c) PROVE Inv1'
  <2>1. pc[c] \in Active /\ Return(c) /\ Apply(c)
    BY <1>12 DEF CommitLost, Labels, Active
  <2>2. faults' \in 0..MaxFaults
    BY <1>12, BoundsAssumption DEF CommitLost, TypeOK
  <2> QED
    BY <1>12, <2>1, <2>2, ApplyType, ReturnKeeps DEF CommitLost, TypeOK
<1>13. ASSUME NEW c \in Calls, Refused(c) PROVE Inv1'
  <2>1. pc[c] \in Active /\ Return(c)
    BY <1>13 DEF Refused, Labels, Active
  <2> QED
    BY <1>13, <2>1, ReturnKeeps DEF Refused, TypeOK, dbVars
<1>14. ASSUME NEW c \in Calls, Fail(c) PROVE Inv1'
  <2>1. pc[c] \in Active /\ Return(c)
    BY <1>14 DEF Fail, Active, TypeOK
  <2>2. faults' \in 0..MaxFaults
    BY <1>14, BoundsAssumption DEF Fail, TypeOK
  <2> QED
    BY <1>14, <2>1, <2>2, ReturnKeeps DEF Fail, TypeOK, dbVars
<1>15. ASSUME NEW p \in Processes, Crash(p) PROVE Inv1'
  <2>1. job' \in [Calls -> Job] /\ \A d \in Calls : job'[d].svc = job[d].svc
    BY <1>15, BlankType DEF Crash, TypeOK, Job
  <2>2. TypeOK'
    BY <1>15, <2>1, BoundsAssumption DEF Crash, TypeOK, dbVars, Labels
  <2>3. LockInv'
    <3> SUFFICES ASSUME NEW d \in Calls, pc'[d] \in Active PROVE HoldsLock(d)'
      BY DEF LockInv
    <3>1. ProcessOf[d] # p /\ pc[d] \in Active
      BY <1>15 DEF Crash, Active
    <3>2. HoldsLock(d) /\ ProcessOf[d] \in Processes
      BY <3>1, SystemAssumption DEF LockInv
    <3>3. queue'[ProcessOf[d]] = queue[ProcessOf[d]]
      BY <1>15, <3>1, <3>2 DEF Crash, TypeOK
    <3> QED
      BY <2>1, <3>2, <3>3 DEF HoldsLock, LockOf
  <2> QED
    BY <1>15, <2>2, <2>3 DEF Crash, dbVars
<1>16. ASSUME NEW s \in Services, DeleteService(s) PROVE Inv1'
  <2>1. IsFiniteSet(checks') /\ checks' \subseteq checks
    BY <1>16, FS_Subset DEF DeleteService
  <2>2. TypeOK'
    BY <1>16, <2>1 DEF DeleteService, TypeOK, Statuses
  <2>3. LockInv'
    BY <1>16 DEF DeleteService, LockInv, HoldsLock, LockOf
  <2> QED
    BY <2>1, <2>2, <2>3
<1>17. CASE Tick
  BY <1>17, BoundsAssumption DEF Tick, TypeOK, dbVars, LockInv, HoldsLock, LockOf
<1>18. CASE UNCHANGED vars
  BY <1>18 DEF vars, TypeOK, dbVars, LockInv, HoldsLock, LockOf
<1> QED
  BY <1>1, <1>2, <1>3, <1>4, <1>5, <1>6, <1>7, <1>9, <1>10, <1>11, <1>12, <1>13,
     <1>14, <1>15, <1>16, <1>17, <1>18, <1>19 DEF Next, Step, Fault

\* For every number of processes, calls, services and results, whatever fails:
\* the variables keep their types and a call past Acquire holds its lock.
THEOREM LocksHeld == Spec => []Inv1
<1>1. Init => Inv1
  BY Inv1Init
<1>2. Inv1 /\ [Next]_vars => Inv1'
  BY Inv1Next
<1> QED
  BY <1>1, <1>2, PTL DEF Spec

\* In particular TypeOK always holds.
THEOREM TypeCorrect == Spec => []TypeOK
<1>1. Inv1 => TypeOK
  BY DEF Inv1
<1> QED
  BY <1>1, LocksHeld, PTL

-----------------------------------------------------------------------------
\* Any number of processes

\* Incidents are numbered as they are committed, also those that calls have
\* read, be it long ago or in another process.
IdsInv ==
  /\ \A s \in Services : open[s] \subseteq 1..opened[s]
  /\ \A c \in Calls : job[c].seen \subseteq 1..opened[job[c].svc]

\* A step that commits no incident, starts no task and reads at most what is
\* open.
LEMMA IdsReadOnly ==
  ASSUME Inv1, IdsInv, NoticeAfterCommit, Inv1',
         UNCHANGED <<opened, notices>>,
         \A s \in Services : open'[s] \subseteq open[s],
         \A c \in Calls : job'[c].seen \subseteq open[job'[c].svc] \/ job'[c].seen = {}
                          \/ (job'[c].seen = job[c].seen /\ job'[c].svc = job[c].svc)
  PROVE  IdsInv' /\ NoticeAfterCommit'
<1>1. \A c \in Calls : job'[c].svc \in Services
  BY DEF Inv1, TypeOK, Job
<1>2. IdsInv'
  BY <1>1 DEF IdsInv
<1>3. NoticeAfterCommit'
  BY DEF NoticeAfterCommit
<1> QED
  BY <1>2, <1>3

\* What the commit of any process does to the incidents of its service.
LEMMA IdsApply ==
  ASSUME Inv1, IdsInv, NEW c \in Calls, Apply(c)
  PROVE  LET s == job[c].svc IN
         /\ \A t \in Services : opened'[t] \in Nat /\ opened'[t] >= opened[t] /\ opened[t] \in Nat
         /\ \A t \in Services : open'[t] \subseteq open[t] \union {opened[t] + 1}
         /\ \A t \in Services : opened[t] + 1 \in open'[t] => opened'[t] = opened[t] + 1
         /\ Opens(job[c]) => opened'[s] = opened[s] + 1
         /\ Resolves(job[c]) => open'[s] \intersect job[c].seen = {} /\ job[c].seen \subseteq 1..opened[s]
<1> DEFINE s == job[c].svc
<1>1. s \in Services /\ opened \in [Services -> Nat] /\ open \in [Services -> SUBSET Nat]
  BY DEF Inv1, TypeOK, Job
<1>2. /\ open'[s] = OpenAfter(job[c], s)
      /\ opened'[s] = IF Opens(job[c]) THEN opened[s] + 1 ELSE opened[s]
      /\ \A t \in Services \ {s} : open'[t] = open[t] /\ opened'[t] = opened[t]
  BY <1>1 DEF Apply
<1>3. /\ open[s] \subseteq 1..opened[s] /\ job[c].seen \subseteq 1..opened[s]
      /\ \A t \in Services : open[t] \subseteq 1..opened[t]
  BY <1>1 DEF IdsInv
<1>4. Resolves(job[c]) => ~Opens(job[c])
  BY DEF Opens, Resolves
<1> HIDE DEF s
<1>5. /\ open'[s] \subseteq open[s] \union {opened[s] + 1}
      /\ Resolves(job[c]) => open'[s] \intersect job[c].seen = {}
      /\ opened[s] + 1 \in open'[s] => Opens(job[c])
  BY <1>1, <1>2, <1>3, <1>4 DEF OpenAfter
<1>6. \A t \in Services : open'[t] \subseteq open[t] \union {opened[t] + 1}
  BY <1>2, <1>5
<1>7. \A t \in Services : opened'[t] \in Nat /\ opened'[t] >= opened[t] /\ opened[t] \in Nat
  BY <1>1, <1>2
<1>8. \A t \in Services : opened[t] + 1 \in open'[t] => opened'[t] = opened[t] + 1
  BY <1>1, <1>2, <1>3, <1>5
<1> QED
  BY <1>2, <1>3, <1>5, <1>6, <1>7, <1>8 DEF s

\* A commit, with or without the task it starts.
LEMMA IdsCommit ==
  ASSUME Inv1, IdsInv, NoticeAfterCommit, Inv1', NEW c \in Calls, Apply(c), Return(c),
         notices' \in {notices, [notices EXCEPT ![job[c].svc] = @ \o Announces(job[c], job[c].svc)]}
  PROVE  IdsInv' /\ NoticeAfterCommit'
<1> DEFINE s == job[c].svc
<1>1. s \in Services /\ notices \in [Services -> Seq(Notice)] /\ \A d \in Calls : job[d].svc \in Services
  BY DEF Inv1, TypeOK, Job
<1>2. \A d \in Calls : job'[d].svc = job[d].svc /\ (job'[d].seen = job[d].seen \/ job'[d].seen = {})
  BY DEF Return, Blank, Inv1, TypeOK
<1>3. IdsInv'
  <2>1. ASSUME NEW t \in Services PROVE open'[t] \subseteq 1..opened'[t]
    <3>1. open[t] \subseteq 1..opened[t]
      BY DEF IdsInv
    <3> QED
      BY <3>1, IdsApply
  <2>2. ASSUME NEW d \in Calls PROVE job'[d].seen \subseteq 1..opened'[job'[d].svc]
    <3>1. job[d].seen \subseteq 1..opened[job[d].svc]
      BY DEF IdsInv
    <3>2. opened[job[d].svc] \in Nat /\ opened'[job[d].svc] \in Nat
          /\ opened'[job[d].svc] >= opened[job[d].svc]
      BY <1>1, IdsApply
    <3> QED
      BY <1>2, <3>1, <3>2
  <2> QED
    BY <2>1, <2>2 DEF IdsInv
<1>4. ASSUME NEW t \in Services, NEW n \in Notice,
             n.id \in 1..opened[t], n.event = "resolved" => n.id \notin open[t]
      PROVE  n.id \in 1..opened'[t] /\ (n.event = "resolved" => n.id \notin open'[t])
  BY <1>4, IdsApply
<1>5. ASSUME NEW t \in Services, NEW i \in DOMAIN notices[t]
      PROVE  /\ notices[t][i].id \in 1..opened'[t]
             /\ notices[t][i].event = "resolved" => notices[t][i].id \notin open'[t]
  BY <1>1, <1>4, <1>5 DEF NoticeAfterCommit
<1>6. ASSUME NEW n, Announces(job[c], s) = <<n>>
      PROVE  n.id \in 1..opened'[s] /\ (n.event = "resolved" => n.id \notin open'[s])
  <2>1. CASE Opens(job[c])
    BY <1>1, <1>6, <2>1, IdsApply DEF Announces
  <2>2. CASE ~Opens(job[c]) /\ Resolves(job[c])
    <3>1. n = [event |-> "resolved", id |-> CHOOSE i \in job[c].seen : TRUE]
      BY <1>6, <2>2 DEF Announces
    <3>2. (CHOOSE i \in job[c].seen : TRUE) \in job[c].seen
      BY <2>2 DEF Resolves
    <3>3. n.id \in job[c].seen
      BY <3>1, <3>2
    <3> QED
      BY <1>1, <2>2, <3>3, IdsApply
  <2>3. CASE ~Opens(job[c]) /\ ~Resolves(job[c])
    BY <1>6, <2>3 DEF Announces
  <2> QED
    BY <2>1, <2>2, <2>3
<1>7. Announces(job[c], s) = <<>> \/ \E n : Announces(job[c], s) = <<n>>
  BY DEF Announces
<1>8. ASSUME NEW t \in Services, NEW i \in DOMAIN notices'[t]
      PROVE  /\ notices'[t][i].id \in 1..opened'[t]
             /\ notices'[t][i].event = "resolved" => notices'[t][i].id \notin open'[t]
  <2>1. CASE notices'[t] = notices[t]
    BY <1>5, <1>8, <2>1
  <2>2. CASE notices'[t] # notices[t]
    <3>1. t = s /\ notices'[s] = notices[s] \o Announces(job[c], s)
      BY <1>1, <2>2
    <3>2. notices[s] \in Seq(Notice)
      BY <1>1
    <3>a. notices[s] \o <<>> = notices[s]
      BY <3>2
    <3>3. PICK n : Announces(job[c], s) = <<n>>
      BY <1>7, <2>2, <3>1, <3>a
    <3>4. \/ i \in DOMAIN notices[s] /\ notices'[s][i] = notices[s][i]
          \/ notices'[s][i] = n
      BY <1>8, <3>1, <3>2, <3>3
    <3> QED
      BY <1>5, <1>6, <3>1, <3>3, <3>4
  <2> QED
    BY <2>1, <2>2
<1> HIDE DEF s
<1> QED
  BY <1>3, <1>8 DEF NoticeAfterCommit

LEMMA IdsNext ==
  ASSUME Inv1, IdsInv, NoticeAfterCommit, [Next]_vars
  PROVE  IdsInv' /\ NoticeAfterCommit'
<1>a. Inv1'
  BY Inv1Next
<1>b. job \in [Calls -> Job] /\ \A c \in Calls : job[c].svc \in Services
  BY DEF Inv1, TypeOK, Job
<1>1. ASSUME NEW c \in Calls, NEW r \in Row, Ingest(c, r) PROVE IdsInv' /\ NoticeAfterCommit'
  BY <1>a, <1>b, <1>1, IdsReadOnly DEF Ingest, Blank
<1>2. ASSUME NEW c \in Calls, Acquire(c) \/ CountTotal(c) \/ CountFailing(c) PROVE IdsInv' /\ NoticeAfterCommit'
  <2>1. \A d \in Calls : job'[d].seen = job[d].seen /\ job'[d].svc = job[d].svc
    BY <1>b, <1>2 DEF Acquire, CountTotal, CountFailing, Job
  <2> QED
    BY <1>a, <1>2, <2>1, IdsReadOnly DEF Acquire, CountTotal, CountFailing, dbVars
<1>3. ASSUME NEW c \in Calls, FindOpen(c) PROVE IdsInv' /\ NoticeAfterCommit'
  <2>1. \A d \in Calls : job'[d].svc = job[d].svc
                         /\ (job'[d].seen = job[d].seen \/ job'[d].seen = open[job[d].svc])
    BY <1>b, <1>3 DEF FindOpen, Job
  <2> QED
    BY <1>a, <1>3, <2>1, IdsReadOnly DEF FindOpen, dbVars
<1>4. ASSUME NEW c \in Calls, NothingRecent(c) \/ FindMany(c) \/ Refused(c) \/ Fail(c)
      PROVE  IdsInv' /\ NoticeAfterCommit'
  <2>1. Return(c) /\ UNCHANGED <<opened, open, notices>>
    BY <1>4 DEF NothingRecent, FindMany, Refused, Fail, dbVars
  <2>2. \A d \in Calls : job'[d].svc = job[d].svc /\ (job'[d].seen = job[d].seen \/ job'[d].seen = {})
    BY <1>b, <2>1 DEF Return, Blank
  <2> QED
    BY <1>a, <2>1, <2>2, IdsReadOnly
<1>5. ASSUME NEW c \in Calls, Publish(c) \/ PublishFailed(c) PROVE IdsInv' /\ NoticeAfterCommit'
  BY <1>a, <1>5, IdsReadOnly DEF Publish, PublishFailed, Flush, dbVars
<1>6. ASSUME NEW c \in Calls, Commit(c) \/ CommitLost(c) PROVE IdsInv' /\ NoticeAfterCommit'
  BY <1>a, <1>6, IdsCommit DEF Commit, CommitLost
<1>7. ASSUME NEW p \in Processes, Crash(p) PROVE IdsInv' /\ NoticeAfterCommit'
  <2>1. \A d \in Calls : job'[d].svc = job[d].svc /\ (job'[d].seen = job[d].seen \/ job'[d].seen = {})
    BY <1>7 DEF Crash, Blank
  <2> QED
    BY <1>a, <1>7, <2>1, IdsReadOnly DEF Crash, dbVars
<1>8. ASSUME NEW s \in Services, DeleteService(s) PROVE IdsInv' /\ NoticeAfterCommit'
  <2>1. \A t \in Services : open'[t] \subseteq open[t]
    BY <1>8 DEF DeleteService, Inv1, TypeOK
  <2> QED
    BY <1>a, <1>8, <2>1, IdsReadOnly DEF DeleteService
<1>9. CASE Tick \/ UNCHANGED vars
  BY <1>a, <1>9, IdsReadOnly DEF Tick, vars, dbVars
<1>10. ASSUME NEW c \in Calls, AskForLock(c) PROVE IdsInv' /\ NoticeAfterCommit'
  BY <1>a, <1>10, IdsReadOnly DEF AskForLock, dbVars
<1> QED
  BY <1>1, <1>2, <1>3, <1>4, <1>5, <1>6, <1>7, <1>8, <1>9, <1>10 DEF Next, Step, Fault

LEMMA IdsHold == Spec => [](IdsInv /\ NoticeAfterCommit)
<1>1. Init => IdsInv /\ NoticeAfterCommit
  BY DEF Init, IdsInv, NoticeAfterCommit, Blank
<1>2. Inv1 /\ IdsInv /\ NoticeAfterCommit /\ [Next]_vars => IdsInv' /\ NoticeAfterCommit'
  BY IdsNext
<1> QED
  BY <1>1, <1>2, LocksHeld, PTL DEF Spec

\* Whatever the number of processes, an alert task is started only for an
\* incident that is committed, and one of a resolution only for an incident
\* that is resolved and stays so.
THEOREM NoticesFollowCommits == Spec => []NoticeAfterCommit
BY IdsHold, PTL

\* The alerts that tell of an opening tell of different incidents.
OpeningsDiffer ==
  \A s \in Services : \A i, j \in DOMAIN notices[s] :
    /\ notices[s][i].event = "opened" /\ notices[s][j].event = "opened"
    /\ notices[s][i].id = notices[s][j].id
    => i = j

\* The commit of any process announces an id that nobody has announced.
LEMMA OpeningsNext ==
  Inv1 /\ IdsInv /\ NoticeAfterCommit /\ OpeningsDiffer /\ [Next]_vars => OpeningsDiffer'
<1> SUFFICES ASSUME Inv1, IdsInv, NoticeAfterCommit, OpeningsDiffer, [Next]_vars
             PROVE  OpeningsDiffer'
  OBVIOUS
<1>1. CASE notices' = notices
  BY <1>1 DEF OpeningsDiffer
<1>2. ASSUME NEW c \in Calls, Commit(c) PROVE OpeningsDiffer'
  <2>1. PICK s \in Services : s = job[c].svc
    BY DEF Inv1, TypeOK, Job
  <2>2. /\ notices[s] \in Seq(Notice) /\ opened[s] \in Nat
        /\ notices'[s] = notices[s] \o Announces(job[c], s)
        /\ \A t \in Services \ {s} : notices'[t] = notices[t]
    BY <1>2, <2>1 DEF Commit, Inv1, TypeOK
  <2>3. CASE ~Opens(job[c]) /\ ~Resolves(job[c])
    <3>1. notices'[s] = notices[s]
      BY <2>2, <2>3 DEF Announces
    <3> QED
      BY <2>2, <3>1 DEF OpeningsDiffer
  <2>4. ASSUME NEW n, Announces(job[c], s) = <<n>>,
               n.event = "opened" => n.id = opened[s] + 1
        PROVE  OpeningsDiffer'
    <3>1. \A i \in DOMAIN notices'[s] :
            \/ i \in DOMAIN notices[s] /\ notices'[s][i] = notices[s][i]
            \/ i = Len(notices[s]) + 1 /\ notices'[s][i] = n
      BY <2>2, <2>4
    <3>2. \A i \in DOMAIN notices[s] : notices[s][i].id # opened[s] + 1
      BY <2>2 DEF NoticeAfterCommit
    <3> SUFFICES ASSUME NEW t \in Services, NEW i \in DOMAIN notices'[t],
                        NEW j \in DOMAIN notices'[t],
                        notices'[t][i].event = "opened", notices'[t][j].event = "opened",
                        notices'[t][i].id = notices'[t][j].id
                 PROVE  i = j
      BY DEF OpeningsDiffer
    <3>3. CASE t # s
      BY <2>2, <3>3 DEF OpeningsDiffer
    <3>4. CASE t = s
      BY <2>4, <3>1, <3>2, <3>4 DEF OpeningsDiffer
    <3> QED
      BY <3>3, <3>4
  <2>5. CASE Opens(job[c])
    BY <2>4, <2>5 DEF Announces
  <2>6. CASE ~Opens(job[c]) /\ Resolves(job[c])
    <3> DEFINE n == [event |-> "resolved", id |-> CHOOSE i \in job[c].seen : TRUE]
    <3>1. Announces(job[c], s) = <<n>> /\ n.event # "opened"
      BY <2>6 DEF Announces
    <3> HIDE DEF n
    <3> QED
      BY <2>4, <3>1
  <2> QED
    BY <2>3, <2>5, <2>6
<1> QED
  BY <1>1, <1>2 DEF Next, Ingest, Step, AskForLock, Acquire, CountTotal, NothingRecent,
     CountFailing, FindOpen, FindMany, Publish, Refused, Fault, Fail, PublishFailed,
     CommitLost, Crash, Flush, DeleteService, Tick, vars

\* In any number of processes an opening is announced at most once.  (Two
\* processes may both announce the resolution of one incident.)
THEOREM OpeningsToldOnce == Spec => []OpeningsDiffer
<1>1. Init => OpeningsDiffer
  BY DEF Init, OpeningsDiffer
<1> QED
  BY <1>1, OpeningsNext, LocksHeld, IdsHold, PTL DEF Spec

\* One step while a service has two open incidents.
LEMMA WedgedStays ==
  ASSUME TypeOK, IdsInv, [Next]_vars, NEW s \in Services, Wedged(s), exists'[s]
  PROVE  Wedged(s)' /\ status'[s] = status[s]
<1>a. /\ pc \in [Calls -> Labels] /\ job \in [Calls -> Job]
      /\ open \in [Services -> SUBSET Nat] /\ status \in [Services -> Statuses]
      /\ Cardinality(open[s]) > 1
      /\ \A c \in Calls : job[c].svc = s => pc[c] \notin {"write", "commit"}
  BY DEF TypeOK, Wedged
<1>1. SUFFICES /\ open'[s] = open[s] /\ status'[s] = status[s]
               /\ \A c \in Calls : job'[c].svc = s => pc'[c] \notin {"write", "commit"}
  BY <1>a DEF Wedged
<1>2. ASSUME NEW c \in Calls, Return(c)
      PROVE  \A d \in Calls : job'[d].svc = s => pc'[d] \notin {"write", "commit"}
  BY <1>a, <1>2 DEF Return, Blank
<1>3. ASSUME NEW c \in Calls, NEW r \in Row, Ingest(c, r) PROVE <1>1!1
  BY <1>a, <1>3 DEF Ingest, Goto, Blank
<1>4. ASSUME NEW c \in Calls,
             AskForLock(c) \/ Acquire(c) \/ CountTotal(c) \/ CountFailing(c)
      PROVE  <1>1!1
  BY <1>a, <1>4 DEF AskForLock, Acquire, CountTotal, CountFailing, Goto, Job, dbVars
<1>5. ASSUME NEW c \in Calls, FindOpen(c) PROVE <1>1!1
  <2>1. Cardinality(open[s]) \in Nat
    <3>1. open[s] \subseteq 1..opened[s] /\ opened[s] \in Nat
      BY DEF IdsInv, TypeOK
    <3> QED
      <4>1. IsFiniteSet(1..opened[s])
        BY <3>1, FS_Interval
      <4>2. IsFiniteSet(open[s])
        BY <3>1, <4>1, FS_Subset
      <4> QED
        BY <4>2, FS_CardinalityType
  <2>2. job[c].svc # s
    BY <1>5, <1>a, <2>1 DEF FindOpen
  <2> QED
    BY <1>a, <1>5, <2>2 DEF FindOpen, Goto, Job, dbVars
<1>6. ASSUME NEW c \in Calls, NothingRecent(c) \/ FindMany(c) \/ Refused(c) \/ Fail(c) PROVE <1>1!1
  BY <1>2, <1>6 DEF NothingRecent, FindMany, Refused, Fail, dbVars
<1>7. ASSUME NEW c \in Calls, Publish(c) \/ PublishFailed(c) PROVE <1>1!1
  BY <1>a, <1>7 DEF Publish, PublishFailed, Flush, Goto, dbVars
<1>8. ASSUME NEW c \in Calls, Commit(c) \/ CommitLost(c) PROVE <1>1!1
  <2>1. job[c].svc # s /\ Apply(c) /\ Return(c)
    BY <1>8, <1>a DEF Commit, CommitLost
  <2> QED
    BY <1>2, <1>a, <2>1 DEF Apply
<1>9. ASSUME NEW p \in Processes, Crash(p) PROVE <1>1!1
  BY <1>a, <1>9 DEF Crash, Blank, dbVars
<1>10. ASSUME NEW t \in Services, DeleteService(t) PROVE <1>1!1
  BY <1>a, <1>10 DEF DeleteService, TypeOK
<1>11. CASE Tick \/ UNCHANGED vars
  BY <1>a, <1>11 DEF Tick, vars, dbVars
<1> QED
  BY <1>3, <1>4, <1>5, <1>6, <1>7, <1>8, <1>9, <1>10, <1>11 DEF Next, Step, Fault

\* Two open incidents stop every later evaluation of the service, in every
\* process, until the service is deleted.
THEOREM TwoIncidentsFreeze == Spec => DoubleOpenFreezes
<1>1. TypeOK /\ IdsInv /\ [Next]_vars
        => [\A s \in Services : Wedged(s) /\ exists'[s] => Wedged(s)' /\ status'[s] = status[s]]_vars
  BY WedgedStays
<1> QED
  BY <1>1, TypeCorrect, IdsHold, PTL DEF Spec, DoubleOpenFreezes

-----------------------------------------------------------------------------
\* Any number of processes: the evidence

\* The quorum is a threshold: no failure is never down, nothing but failures is
\* always down, and more failures of as many results stay down.
LEMMA QuorumIsThreshold ==
  ASSUME NEW f \in Nat, NEW n \in Nat \ {0}
  PROVE  /\ IsQuorumDown(f, n) => f # 0
         /\ ~IsQuorumDown(f, n) => f < n
         /\ \A g \in Nat : g >= f /\ IsQuorumDown(f, n) => IsQuorumDown(g, n)
<1> USE QuorumAssumption DEF IsQuorumDown
<1>1. QuorumNum * n > 0
  OBVIOUS
<1>2. 0 * QuorumDen = 0
  OBVIOUS
<1>3. f >= n => f * QuorumDen >= n * QuorumDen
  OBVIOUS
<1>4. n * QuorumDen >= QuorumNum * n
  OBVIOUS
<1>5. \A g \in Nat : g >= f => g * QuorumDen >= f * QuorumDen
  OBVIOUS
<1>6. f * QuorumDen \in Int /\ QuorumNum * n \in Int /\ n * QuorumDen \in Int
      /\ \A g \in Nat : g * QuorumDen \in Int
  OBVIOUS
<1> QED
  BY <1>1, <1>2, <1>3, <1>4, <1>5, <1>6

\* What a call has counted stands for rows that are still stored: the rows of a
\* service only grow in number while the service exists.
Founded(c) ==
  /\ pc[c] \in {"failing", "incident", "write", "commit"} => job[c].total # 0
  /\ pc[c] = "failing" => job[c].total <= Cardinality(Recent(job[c].svc, job[c].clock))
  /\ pc[c] \in {"incident", "write", "commit"} =>
       /\ job[c].failing # 0 => Evidence(job[c].svc, TRUE)
       /\ job[c].failing < job[c].total => Evidence(job[c].svc, FALSE)

EvidenceInv == \A c \in Calls : exists[job[c].svc] => Founded(c)

\* A call that does not move keeps its evidence while rows are only added.
LEMMA FoundedStays ==
  ASSUME Inv1, Inv1', NEW c \in Calls, Founded(c), pc'[c] = pc[c], job'[c] = job[c],
         \A r \in checks : r.svc = job[c].svc => r \in checks'
  PROVE  Founded(c)'
<1> DEFINE before == Recent(job[c].svc, job[c].clock)
           after == Recent(job[c].svc, job[c].clock)'
<1>1. before \subseteq after
  BY DEF Recent, InWindow
<1>2. IsFiniteSet(after) /\ Cardinality(before) \in Nat /\ Cardinality(after) \in Nat
  <2>1. after \subseteq checks' /\ IsFiniteSet(checks')
    BY DEF Recent, Inv1
  <2>2. IsFiniteSet(after)
    BY <2>1, FS_Subset
  <2>3. IsFiniteSet(before)
    BY <1>1, <2>2, FS_Subset
  <2> QED
    BY <2>2, <2>3, FS_CardinalityType
<1>3. Cardinality(before) <= Cardinality(after)
  BY <1>1, <1>2, FS_Subset
<1>4. job[c].total \in Nat
  BY DEF Inv1, TypeOK, Job
<1>5. \A bad \in BOOLEAN : Evidence(job[c].svc, bad) => Evidence(job[c].svc, bad)'
  BY DEF Evidence
<1> HIDE DEF before, after
<1>6. job[c].total <= Cardinality(before) => job[c].total <= Cardinality(after)
  BY <1>2, <1>3, <1>4
<1> QED
  BY <1>5, <1>6 DEF Founded, Evidence, before, after

\* Every step keeps the evidence of every call whose service exists.
LEMMA EvidenceNext == Inv1 /\ EvidenceInv /\ [Next]_vars => EvidenceInv'
<1> SUFFICES ASSUME Inv1, EvidenceInv, [Next]_vars, NEW c \in Calls, exists'[job'[c].svc]
             PROVE  Founded(c)'
  BY DEF EvidenceInv
<1>0. /\ Inv1' /\ pc \in [Calls -> Labels] /\ job \in [Calls -> Job]
      /\ exists \in [Services -> BOOLEAN] /\ \A d \in Calls : job[d].svc \in Services
  BY Inv1Next DEF Inv1, TypeOK, Job
<1>1. ASSUME pc'[c] = pc[c], job'[c] = job[c], exists[job[c].svc],
             \A r \in checks : r.svc = job[c].svc => r \in checks'
      PROVE  Founded(c)'
  BY <1>0, <1>1, FoundedStays DEF EvidenceInv
<1>2. ASSUME pc'[c] \in {"idle", "stored", "waiting", "total"} PROVE Founded(c)'
  BY <1>2 DEF Founded
<1>3. ASSUME NEW d \in Calls, NEW r \in Row, Ingest(d, r) PROVE Founded(c)'
  BY <1>0, <1>1, <1>2, <1>3 DEF Ingest, Goto
<1>4. ASSUME NEW d \in Calls, AskForLock(d) \/ Acquire(d) PROVE Founded(c)'
  BY <1>0, <1>1, <1>2, <1>4 DEF AskForLock, Acquire, Goto, dbVars
<1>5. ASSUME NEW d \in Calls, Return(d), UNCHANGED <<exists, checks>> PROVE Founded(c)'
  BY <1>0, <1>1, <1>2, <1>5 DEF Return
<1>6. ASSUME NEW d \in Calls, CountTotal(d) PROVE Founded(c)'
  <2>1. CASE c # d
    BY <1>0, <1>1, <1>6, <2>1 DEF CountTotal, Goto, dbVars
  <2>2. CASE c = d
    <3> DEFINE total == Cardinality(Recent(job[c].svc, job[c].clock))
    <3>1. total # 0 /\ total \in Nat
      BY <1>6, <2>2, CountsAreNat DEF CountTotal, Inv1
    <3>2. /\ pc'[c] = "failing" /\ job'[c].total = total
          /\ job'[c].svc = job[c].svc /\ job'[c].clock = job[c].clock /\ checks' = checks
      BY <1>0, <1>6, <2>2 DEF CountTotal, Goto, dbVars, Job
    <3>3. Recent(job[c].svc, job[c].clock)' = Recent(job[c].svc, job[c].clock)
      BY <3>2 DEF Recent, InWindow
    <3> QED
      BY <3>1, <3>2, <3>3 DEF Founded
  <2> QED
    BY <2>1, <2>2
<1>7. ASSUME NEW d \in Calls, CountFailing(d) PROVE Founded(c)'
  <2>1. CASE c # d
    BY <1>0, <1>1, <1>7, <2>1 DEF CountFailing, Goto, dbVars
  <2>2. CASE c = d
    <3> DEFINE s == job[c].svc
               seen == Recent(s, job[c].clock)
               bad == Failing(s, job[c].clock)
    <3>1. /\ pc[c] = "failing" /\ pc'[c] = "incident" /\ job'[c].svc = s
          /\ job'[c].total = job[c].total /\ job'[c].failing = Cardinality(bad)
          /\ checks' = checks /\ exists[s]
      BY <1>0, <1>7, <2>2 DEF CountFailing, Goto, dbVars, Job
    <3>2. job[c].total # 0 /\ job[c].total <= Cardinality(seen) /\ job[c].total \in Nat
      BY <1>0, <3>1 DEF EvidenceInv, Founded, Job
    <3>3. Cardinality(seen) \in Nat /\ Cardinality(bad) \in Nat
      BY CountsAreNat DEF Inv1
    <3>4. Cardinality(bad) # 0 => Evidence(s, TRUE)
      <4>1. bad = {} => Cardinality(bad) = 0
        BY FS_EmptySet
      <4>2. \A r \in bad : r \in checks /\ r.svc = s /\ r.bad = TRUE
        BY DEF Failing, Recent, Inv1, TypeOK, Row
      <4> QED
        BY <4>1, <4>2 DEF Evidence
    <3>5. Cardinality(bad) < job[c].total => Evidence(s, FALSE)
      <4>1. bad # seen \/ Cardinality(bad) >= job[c].total
        BY <3>2, <3>3
      <4>2. bad # seen => \E r \in seen : ~r.bad
        BY DEF Failing
      <4>3. \A r \in seen : r \in checks /\ r.svc = s /\ r.bad \in BOOLEAN
        BY DEF Recent, Inv1, TypeOK, Row
      <4> QED
        BY <3>2, <3>3, <4>1, <4>2, <4>3 DEF Evidence
    <3> HIDE DEF s, bad, seen
    <3>6. \A b \in BOOLEAN : Evidence(s, b) => Evidence(job[c].svc, b)'
      BY <3>1 DEF Evidence
    <3> QED
      BY <3>1, <3>2, <3>4, <3>5, <3>6 DEF Founded
  <2> QED
    BY <2>1, <2>2
<1>8. ASSUME NEW d \in Calls, FindOpen(d) \/ Flush(d), UNCHANGED <<exists, checks>>
      PROVE  Founded(c)'
  <2>1. CASE c # d
    BY <1>0, <1>1, <1>8, <2>1 DEF FindOpen, Flush, Goto
  <2>2. CASE c = d
    <3>1. /\ pc[c] \in {"incident", "write"} /\ pc'[c] \in {"write", "commit"}
          /\ job'[c].svc = job[c].svc /\ job'[c].total = job[c].total
          /\ job'[c].failing = job[c].failing
      BY <1>0, <1>8, <2>2 DEF FindOpen, Flush, Goto, Job
    <3>2. exists[job[c].svc]
      BY <1>8, <3>1
    <3>3. Founded(c)
      BY <3>2 DEF EvidenceInv
    <3>4. \A b \in BOOLEAN : Evidence(job[c].svc, b) => Evidence(job[c].svc, b)'
      BY <1>8, <3>1 DEF Evidence
    <3> QED
      BY <3>1, <3>3, <3>4 DEF Founded
  <2> QED
    BY <2>1, <2>2
<1>9. ASSUME NEW p \in Processes, Crash(p) PROVE Founded(c)'
  BY <1>0, <1>1, <1>2, <1>9 DEF Crash, dbVars
<1>10. ASSUME NEW s \in Services, DeleteService(s) PROVE Founded(c)'
  <2>1. job'[c] = job[c] /\ pc'[c] = pc[c] /\ job[c].svc # s /\ exists[job[c].svc]
    BY <1>0, <1>10 DEF DeleteService
  <2>2. \A r \in checks : r.svc = job[c].svc => r \in checks'
    BY <1>10, <2>1 DEF DeleteService
  <2> QED
    BY <1>1, <2>1, <2>2
<1>11. CASE Tick \/ UNCHANGED vars
  BY <1>1, <1>11 DEF Tick, vars, dbVars
<1> QED
  BY <1>3, <1>4, <1>5, <1>6, <1>7, <1>8, <1>9, <1>10, <1>11
     DEF Next, Step, Fault, NothingRecent, FindMany, Refused, Fail, Publish, PublishFailed,
         FindOpen, Flush, Commit, CommitLost, Apply, dbVars

\* What a commit changes in the incidents rests on stored results.
LEMMA CommitHasEvidence ==
  ASSUME Inv1, EvidenceInv, NEW c \in Calls, pc[c] = "commit", exists[job[c].svc], Apply(c),
         NEW s \in Services
  PROVE  /\ opened'[s] > opened[s] => Evidence(s, TRUE)
         /\ ~(open[s] \subseteq open'[s]) => Evidence(s, FALSE)
<1>1. /\ job[c].failing \in Nat /\ job[c].total \in Nat
      /\ opened \in [Services -> Nat] /\ open \in [Services -> SUBSET Nat]
  BY DEF Inv1, TypeOK, Job
<1>2. /\ job[c].total # 0
      /\ job[c].failing # 0 => Evidence(job[c].svc, TRUE)
      /\ job[c].failing < job[c].total => Evidence(job[c].svc, FALSE)
  BY DEF EvidenceInv, Founded
<1>3. opened'[s] > opened[s] => s = job[c].svc /\ Opens(job[c])
  BY <1>1 DEF Apply
<1>4. ~(open[s] \subseteq open'[s]) => s = job[c].svc /\ Resolves(job[c])
  BY <1>1 DEF Apply, OpenAfter
<1>5. Opens(job[c]) => job[c].failing # 0
  BY <1>1, <1>2, QuorumIsThreshold DEF Opens, Down
<1>6. Resolves(job[c]) => job[c].failing < job[c].total
  BY <1>1, <1>2, QuorumIsThreshold DEF Resolves, Down
<1> QED
  BY <1>2, <1>3, <1>4, <1>5, <1>6

\* Whatever the number of processes, and however the results, the clock and
\* the deletions interleave with the two counts of a call, an incident is
\* opened on a stored failure and resolved on a stored success.
THEOREM VerdictsRestOnResults == Spec => VerdictsHaveEvidence
<1> DEFINE Rests(s) == /\ opened'[s] > opened[s] => Evidence(s, TRUE)
                       /\ exists'[s] /\ ~(open[s] \subseteq open'[s]) => Evidence(s, FALSE)
<1>1. Init => EvidenceInv
  BY DEF Init, EvidenceInv, Founded
<1>2. ASSUME Inv1, EvidenceInv, [Next]_vars, NEW s \in Services PROVE Rests(s)
  <2>0. opened[s] \in Nat /\ open \in [Services -> SUBSET Nat] /\ exists \in [Services -> BOOLEAN]
    BY <1>2 DEF Inv1, TypeOK
  <2>1. ASSUME opened' = opened, exists'[s] => open'[s] = open[s] PROVE Rests(s)
    <3>1. ~(opened'[s] > opened[s])
      BY <2>0, <2>1
    <3>2. ~(exists'[s] /\ ~(open[s] \subseteq open'[s]))
      BY <2>1
    <3> QED
      BY <3>1, <3>2
  <2>2. ASSUME NEW c \in Calls, Commit(c) \/ CommitLost(c) PROVE Rests(s)
    BY <1>2, <2>2, CommitHasEvidence DEF Commit, CommitLost
  <2>3. ASSUME NEW t \in Services, DeleteService(t) PROVE Rests(s)
    <3>1. exists'[s] => s # t
      BY <2>0, <2>3 DEF DeleteService
    <3>2. opened' = opened /\ (exists'[s] => open'[s] = open[s])
      BY <2>0, <2>3, <3>1 DEF DeleteService
    <3> QED
      BY <2>1, <3>2
  <2> QED
    BY <1>2, <2>1, <2>2, <2>3
       DEF Next, Ingest, Step, AskForLock, Acquire, CountTotal, NothingRecent,
           CountFailing, FindOpen, FindMany, Publish, Refused, Fault, Fail, PublishFailed, Crash, Flush, Tick, vars,
           dbVars
<1>3. Inv1 /\ EvidenceInv /\ [Next]_vars => [\A s \in Services : Rests(s)]_vars
  BY <1>2
<1> QED
  BY <1>1, <1>3, EvidenceNext, LocksHeld, PTL DEF Spec, VerdictsHaveEvidence

-----------------------------------------------------------------------------
\* Any number of processes: how many incidents are open

\* Calls that have found no open incident of s and may still open one.
Openers(s) == {c \in Calls : pc[c] \in {"write", "commit"} /\ job[c].svc = s /\ job[c].seen = {}}

\* What is open and what may still be opened finds room.
RoomInv ==
  \A s \in Services :
    Cardinality(open[s]) + Cardinality(Openers(s)) <= Cardinality(Processes)

\* Calls of different processes are at most as many as the processes.
LEMMA OnePerProcess ==
  ASSUME IsFiniteSet(Processes), NEW C \in SUBSET Calls,
         \A c, d \in C : ProcessOf[c] = ProcessOf[d] => c = d
  PROVE  /\ IsFiniteSet(C) /\ Cardinality(C) \in Nat /\ Cardinality(Processes) \in Nat
         /\ Cardinality(C) <= Cardinality(Processes)
<1> DEFINE f == [c \in C |-> ProcessOf[c]]
<1>1. f \in [C -> Processes]
  BY SystemAssumption
<1>2. \A c, d \in C : f[c] = f[d] => c = d
  OBVIOUS
<1>3. f \in Injection(C, Processes)
  BY <1>1, <1>2 DEF Injection, IsInjective
<1> HIDE DEF f
<1> QED
  BY <1>3, FS_Injection, FS_CardinalityType

\* The lock lets one call of each process look at the incidents of a service.
LEMMA OpenersApart ==
  ASSUME LockInv, NEW s \in Services
  PROVE  \A c, d \in Openers(s) : ProcessOf[c] = ProcessOf[d] => c = d
<1> SUFFICES ASSUME NEW c \in Openers(s), NEW d \in Openers(s), ProcessOf[c] = ProcessOf[d]
             PROVE  c = d
  OBVIOUS
<1>1. c \in Calls /\ d \in Calls /\ job[c].svc = s /\ job[d].svc = s
      /\ pc[c] \in Active /\ pc[d] \in Active
  BY DEF Openers, Active, Labels
<1>2. HoldsLock(c) /\ HoldsLock(d)
  BY <1>1 DEF LockInv
<1>3. LockOf(c) = LockOf(d)
  BY <1>1 DEF LockOf
<1> QED
  BY <1>2, <1>3 DEF HoldsLock

\* So the openers of a service are at most as many as the processes.
LEMMA OpenersBounded ==
  ASSUME Inv1, IsFiniteSet(Processes), NEW s \in Services
  PROVE  /\ IsFiniteSet(Openers(s)) /\ Cardinality(Openers(s)) \in Nat
         /\ Cardinality(Processes) \in Nat
         /\ Cardinality(Openers(s)) <= Cardinality(Processes)
<1>1. Openers(s) \in SUBSET Calls
  BY DEF Openers
<1>2. \A c, d \in Openers(s) : ProcessOf[c] = ProcessOf[d] => c = d
  BY OpenersApart DEF Inv1
<1> QED
  BY <1>1, <1>2, OnePerProcess

\* The open incidents of a service can be counted.
LEMMA OpenFinite ==
  ASSUME Inv1, IdsInv, NEW s \in Services
  PROVE  IsFiniteSet(open[s]) /\ Cardinality(open[s]) \in Nat
<1>1. open[s] \subseteq 1..opened[s] /\ opened[s] \in Nat
  BY DEF Inv1, TypeOK, IdsInv
<1>2. IsFiniteSet(1..opened[s])
  BY <1>1, FS_Interval
<1>3. IsFiniteSet(open[s])
  BY <1>1, <1>2, FS_Subset
<1> QED
  BY <1>3, FS_CardinalityType

\* A step after which no incident and no opener is new.
LEMMA RoomKept ==
  ASSUME Inv1, IdsInv, RoomInv, IsFiniteSet(Processes), NEW s \in Services,
         open'[s] \subseteq open[s], Openers(s)' \subseteq Openers(s)
  PROVE  Cardinality(open[s])' + Cardinality(Openers(s))' <= Cardinality(Processes)
<1>1. /\ IsFiniteSet(Openers(s)) /\ Cardinality(Openers(s)) \in Nat
      /\ Cardinality(Processes) \in Nat
  BY OpenersBounded
<1>2. IsFiniteSet(open[s]) /\ Cardinality(open[s]) \in Nat
  BY OpenFinite
<1>3. Cardinality(Openers(s)') <= Cardinality(Openers(s)) /\ Cardinality(Openers(s)') \in Nat
  BY <1>1, FS_Subset, FS_CardinalityType
<1>4. Cardinality(open'[s]) <= Cardinality(open[s]) /\ Cardinality(open'[s]) \in Nat
  BY <1>2, FS_Subset, FS_CardinalityType
<1>5. Cardinality(open[s]) + Cardinality(Openers(s)) <= Cardinality(Processes)
  BY DEF RoomInv
<1> QED
  BY <1>1, <1>2, <1>3, <1>4, <1>5

\* A commit that opens an incident has counted as an opener before.
LEMMA RoomOnCommit ==
  ASSUME Inv1, IdsInv, RoomInv, IsFiniteSet(Processes), NEW c \in Calls, pc[c] = "commit",
         Apply(c), Return(c), NEW s \in Services
  PROVE  Cardinality(open[s])' + Cardinality(Openers(s))' <= Cardinality(Processes)
<1>0. /\ pc \in [Calls -> Labels] /\ job \in [Calls -> Job] /\ job[c].svc \in Services
      /\ open \in [Services -> SUBSET Nat] /\ opened[s] \in Nat
  BY DEF Inv1, TypeOK, Job
<1>1. Openers(s)' = Openers(s) \ {c}
  BY <1>0 DEF Openers, Return
<1>2. CASE s = job[c].svc /\ Opens(job[c])
  <2>1. open'[s] = open[s] \cup {opened[s] + 1} /\ c \in Openers(s)
    BY <1>0, <1>2 DEF Apply, OpenAfter, Opens, Openers
  <2>2. IsFiniteSet(open[s]) /\ Cardinality(open[s]) \in Nat
        /\ Cardinality(Processes) \in Nat
        /\ IsFiniteSet(Openers(s)) /\ Cardinality(Openers(s)) \in Nat
    BY OpenFinite, OpenersBounded
  <2>3. Cardinality(open'[s]) <= Cardinality(open[s]) + 1 /\ Cardinality(open'[s]) \in Nat
    <3> DEFINE id == opened[s] + 1
    <3> HIDE DEF id
    <3>1. /\ IsFiniteSet(open[s] \cup {id})
          /\ Cardinality(open[s] \cup {id}) = IF id \in open[s] THEN Cardinality(open[s])
                                              ELSE Cardinality(open[s]) + 1
      BY <2>2, FS_AddElement
    <3>2. open'[s] = open[s] \cup {id}
      BY <2>1 DEF id
    <3> QED
      BY <2>2, <3>1, <3>2
  <2>4. Cardinality(Openers(s)') = Cardinality(Openers(s)) - 1
    BY <1>1, <2>1, <2>2, FS_RemoveElement
  <2>5. Cardinality(open[s]) + Cardinality(Openers(s)) <= Cardinality(Processes)
    BY DEF RoomInv
  <2> QED
    BY <2>2, <2>3, <2>4, <2>5
<1>3. CASE ~(s = job[c].svc /\ Opens(job[c]))
  <2>1. open'[s] \subseteq open[s]
    BY <1>0, <1>3 DEF Apply, OpenAfter
  <2> QED
    BY <1>1, <2>1, RoomKept
<1> QED
  BY <1>2, <1>3

\* A call becomes an opener only when nothing is open, and then the locks
\* alone leave room for all openers.
LEMMA RoomOnFind ==
  ASSUME Inv1, Inv1', IdsInv, RoomInv, IsFiniteSet(Processes), NEW c \in Calls, FindOpen(c),
         NEW s \in Services
  PROVE  Cardinality(open[s])' + Cardinality(Openers(s))' <= Cardinality(Processes)
<1>1. /\ open' = open /\ job[c].svc \in Services
      /\ job'[c].svc = job[c].svc /\ job'[c].seen = open[job[c].svc]
      /\ \A d \in Calls \ {c} : pc'[d] = pc[d] /\ job'[d] = job[d]
  BY DEF FindOpen, Goto, dbVars, Inv1, TypeOK, Job
<1>2. CASE s = job[c].svc /\ open[s] = {}
  <2>1. Cardinality(open'[s]) = 0
    BY <1>1, <1>2, FS_EmptySet
  <2>2. Openers(s)' \in SUBSET Calls
    BY DEF Openers
  <2>3. \A d, e \in Openers(s)' : ProcessOf[d] = ProcessOf[e] => d = e
    <3> SUFFICES ASSUME NEW d \in Openers(s)', NEW e \in Openers(s)', ProcessOf[d] = ProcessOf[e]
                 PROVE  d = e
      OBVIOUS
    <3>1. d \in Calls /\ e \in Calls /\ job'[d].svc = s /\ job'[e].svc = s
          /\ pc'[d] \in Active /\ pc'[e] \in Active
      BY DEF Openers, Active, Labels
    <3>2. HoldsLock(d)' /\ HoldsLock(e)'
      BY <3>1 DEF Inv1, LockInv
    <3>3. LockOf(d)' = LockOf(e)'
      BY <3>1 DEF LockOf
    <3> QED
      BY <3>2, <3>3 DEF HoldsLock
  <2>4. /\ Cardinality(Openers(s)') <= Cardinality(Processes)
        /\ Cardinality(Openers(s)') \in Nat /\ Cardinality(Processes) \in Nat
    BY <2>2, <2>3, OnePerProcess
  <2> QED
    BY <2>1, <2>4
<1>3. CASE ~(s = job[c].svc /\ open[s] = {})
  <2>1. Openers(s)' \subseteq Openers(s)
    BY <1>1, <1>3 DEF Openers
  <2> QED
    BY <1>1, <2>1, RoomKept
<1> QED
  BY <1>2, <1>3

\* Every step leaves room.
LEMMA RoomNext ==
  ASSUME IsFiniteSet(Processes) PROVE Inv1 /\ IdsInv /\ RoomInv /\ [Next]_vars => RoomInv'
<1> SUFFICES ASSUME Inv1, IdsInv, RoomInv, [Next]_vars, NEW s \in Services
             PROVE  Cardinality(open[s])' + Cardinality(Openers(s))' <= Cardinality(Processes)
  BY DEF RoomInv
<1> DEFINE Room == Cardinality(open[s])' + Cardinality(Openers(s))' <= Cardinality(Processes)
<1>0. /\ Inv1' /\ pc \in [Calls -> Labels] /\ job \in [Calls -> Job]
      /\ open \in [Services -> SUBSET Nat]
  BY Inv1Next DEF Inv1, TypeOK
<1>1. ASSUME UNCHANGED open,
             \A c \in Calls : \/ pc'[c] \notin {"write", "commit"}
                              \/ /\ pc[c] \in {"write", "commit"} /\ job'[c].svc = job[c].svc
                                 /\ job'[c].seen = job[c].seen
      PROVE  Room
  <2>1. Openers(s)' \subseteq Openers(s)
    BY <1>1 DEF Openers
  <2> QED
    BY <1>1, <2>1, RoomKept
<1>2. ASSUME NEW c \in Calls, NEW r \in Row, Ingest(c, r) PROVE Room
  BY <1>0, <1>1, <1>2 DEF Ingest, Goto
<1>3. ASSUME NEW c \in Calls,
             AskForLock(c) \/ Acquire(c) \/ CountTotal(c) \/ CountFailing(c)
      PROVE  Room
  BY <1>0, <1>1, <1>3 DEF AskForLock, Acquire, CountTotal, CountFailing, Goto, dbVars
<1>4. ASSUME NEW c \in Calls, FindOpen(c) PROVE Room
  BY <1>0, <1>4, RoomOnFind
<1>5. ASSUME NEW c \in Calls, Return(c), UNCHANGED open PROVE Room
  BY <1>0, <1>1, <1>5 DEF Return
<1>6. ASSUME NEW c \in Calls, Flush(c), UNCHANGED open PROVE Room
  BY <1>0, <1>1, <1>6 DEF Flush, Goto
<1>7. ASSUME NEW c \in Calls, Commit(c) \/ CommitLost(c) PROVE Room
  BY <1>7, RoomOnCommit DEF Commit, CommitLost
<1>8. ASSUME NEW p \in Processes, Crash(p) PROVE Room
  BY <1>0, <1>1, <1>8 DEF Crash, dbVars
<1>9. ASSUME NEW t \in Services, DeleteService(t) PROVE Room
  <2>1. open'[s] \subseteq open[s] /\ Openers(s)' = Openers(s)
    BY <1>0, <1>9 DEF DeleteService, Openers
  <2> QED
    BY <2>1, RoomKept
<1>10. ASSUME Tick \/ UNCHANGED vars PROVE Room
  <2>1. open' = open /\ pc' = pc /\ job' = job
    BY <1>10 DEF Tick, vars, dbVars
  <2> QED
    BY <1>1, <2>1
<1> HIDE DEF Room
<1>11. Room
  <2>1. \A c \in Calls : NothingRecent(c) \/ FindMany(c) \/ Refused(c) \/ Fail(c) => Room
    BY <1>5 DEF NothingRecent, FindMany, Refused, Fail, dbVars
  <2>2. \A c \in Calls : Publish(c) \/ PublishFailed(c) => Room
    BY <1>6 DEF Publish, PublishFailed, Flush, dbVars
  <2> QED
    BY <1>2, <1>3, <1>4, <1>7, <1>8, <1>9, <1>10, <2>1, <2>2 DEF Next, Step, Fault
<1> QED
  BY <1>11 DEF Room

\* A service never has more open incidents than there are coordinator
\* processes: the lock of each process admits one call that looks for an open
\* incident and then creates one (detector.py:30, 75-87).
THEOREM IncidentsBoundedByProcesses ==
  ASSUME IsFiniteSet(Processes) PROVE Spec => []OpenIncidentsBounded
<1>1. Init => RoomInv
  <2> SUFFICES ASSUME Init, NEW s \in Services
               PROVE  Cardinality(open[s]) + Cardinality(Openers(s)) <= Cardinality(Processes)
    BY DEF RoomInv
  <2>1. open[s] = {} /\ Openers(s) = {}
    BY DEF Init, Openers
  <2>2. Cardinality(Processes) \in Nat
    BY FS_CardinalityType
  <2>3. Cardinality(open[s]) = 0 /\ Cardinality(Openers(s)) = 0
    BY <2>1, FS_EmptySet
  <2> QED
    BY <2>2, <2>3
<1>2. Inv1 /\ IdsInv /\ RoomInv => OpenIncidentsBounded
  <2> SUFFICES ASSUME Inv1, IdsInv, RoomInv, NEW s \in Services
               PROVE  Cardinality(open[s]) <= Cardinality(Processes)
    BY DEF OpenIncidentsBounded
  <2>1. Cardinality(Openers(s)) \in Nat /\ Cardinality(Processes) \in Nat
        /\ Cardinality(open[s]) \in Nat
    BY OpenersBounded, OpenFinite
  <2>2. Cardinality(open[s]) + Cardinality(Openers(s)) <= Cardinality(Processes)
    BY DEF RoomInv
  <2> QED
    BY <2>1, <2>2
<1> QED
  BY <1>1, <1>2, RoomNext, LocksHeld, IdsHold, PTL DEF Spec

-----------------------------------------------------------------------------
\* One process

\* All calls run in one process, as with `uvicorn --workers 1`.
OneProcess == \A c, d \in Calls : ProcessOf[c] = ProcessOf[d]

\* A call that has read the open incidents, and whose service still exists,
\* knows them: nobody changes them before it writes.
SeenInv ==
  \A c \in Calls :
    pc[c] \in {"write", "commit"} /\ exists[job[c].svc] => job[c].seen = open[job[c].svc]

\* A call about to commit has loaded the status that the row still has, so its
\* UPDATE leaves the new status there, written or not.
LoadedInv ==
  \A c \in Calls :
    pc[c] = "commit" /\ exists[job[c].svc] => loaded[c] = status[job[c].svc]

\* Only the last incident of a service can be open.
LastOpen == \A s \in Services : open[s] \subseteq {opened[s]} \ {0}

Inv2 ==
  /\ Inv1
  /\ SeenInv
  /\ LoadedInv
  /\ LastOpen
  /\ StatusMatchesIncident
  /\ NoticeAfterCommit
  /\ NoticesInOrder

\* The lock is exclusive: two calls past Acquire on one service are one call.
LEMMA Alone ==
  ASSUME OneProcess, LockInv, NEW c \in Calls, NEW d \in Calls,
         pc[c] \in Active, pc[d] \in Active, job[c].svc = job[d].svc
  PROVE  c = d
BY DEF OneProcess, LockInv, HoldsLock, LockOf

\* A step that leaves the database and the started tasks alone, and moves at
\* most calls that it takes out of "write" and "commit" or whose reads it
\* keeps, preserves everything but the types.
LEMMA ReadOnly ==
  ASSUME Inv2, Inv1', LoadedInv', UNCHANGED <<dbVars, notices>>,
         \A c \in Calls : pc'[c] \in {"write", "commit"} =>
           \/ pc[c] \in {"write", "commit"} /\ job'[c] = job[c]
           \/ job'[c].seen = open[job'[c].svc]
  PROVE  Inv2'
<1>1. SeenInv'
  BY DEF SeenInv, Inv2, dbVars
<1>2. LastOpen' /\ StatusMatchesIncident'
  BY DEF LastOpen, StatusMatchesIncident, Inv2, dbVars
<1>3. NoticeAfterCommit' /\ NoticesInOrder'
  BY DEF NoticeAfterCommit, NoticesInOrder, Inv2, dbVars
<1> QED
  BY <1>1, <1>2, <1>3 DEF Inv2

\* No step makes stale what a call about to commit has loaded.
LEMMA LoadedKept == ASSUME OneProcess, Inv2, [Next]_vars PROVE LoadedInv'
<1> SUFFICES ASSUME NEW c \in Calls, pc'[c] = "commit", exists'[job'[c].svc]
             PROVE  loaded'[c] = status'[job'[c].svc]
  BY DEF LoadedInv
<1>0. /\ pc \in [Calls -> Labels] /\ job \in [Calls -> Job]
      /\ loaded \in [Calls -> Statuses] /\ status \in [Services -> Statuses]
      /\ exists \in [Services -> BOOLEAN] /\ \A d \in Calls : job[d].svc \in Services
  BY DEF Inv2, Inv1, TypeOK, Job
<1>1. ASSUME pc[c] = "commit", job'[c] = job[c], loaded'[c] = loaded[c],
             exists[job[c].svc], status'[job[c].svc] = status[job[c].svc]
      PROVE  loaded'[c] = status'[job'[c].svc]
  BY <1>1 DEF Inv2, LoadedInv
<1>2. ASSUME NEW d \in Calls, pc'[d] # "commit", UNCHANGED <<exists, status>>,
             \A e \in Calls \ {d} : pc'[e] = pc[e] /\ job'[e] = job[e] /\ loaded'[e] = loaded[e]
      PROVE  loaded'[c] = status'[job'[c].svc]
  BY <1>1, <1>2
<1>3. ASSUME NEW d \in Calls, \/ \E r \in Row : Ingest(d, r)
                             \/ AskForLock(d) \/ Acquire(d) \/ CountTotal(d)
                             \/ CountFailing(d) \/ FindOpen(d)
      PROVE  loaded'[c] = status'[job'[c].svc]
  BY <1>0, <1>2, <1>3 DEF Ingest, AskForLock, Acquire, CountTotal, CountFailing, FindOpen,
     Goto, dbVars
<1>4. ASSUME NEW d \in Calls, Return(d), UNCHANGED <<exists, status>>
      PROVE  loaded'[c] = status'[job'[c].svc]
  BY <1>0, <1>2, <1>4 DEF Return
<1>5. ASSUME NEW d \in Calls, Flush(d), UNCHANGED dbVars
      PROVE  loaded'[c] = status'[job'[c].svc]
  <2>1. CASE d = c
    BY <1>0, <1>5, <2>1 DEF Flush, dbVars
  <2>2. CASE d # c
    BY <1>0, <1>1, <1>5, <2>2 DEF Flush, Goto, dbVars
  <2> QED
    BY <2>1, <2>2
<1>6. ASSUME NEW d \in Calls, pc[d] = "commit", Apply(d), Return(d)
      PROVE  loaded'[c] = status'[job'[c].svc]
  <2>1. /\ d # c /\ pc[c] = "commit" /\ job'[c] = job[c] /\ loaded'[c] = loaded[c]
        /\ exists[job[c].svc]
    BY <1>0, <1>6 DEF Return, Apply
  <2>2. pc[c] \in Active /\ pc[d] \in Active
    BY <1>6, <2>1 DEF Active, Labels
  <2>3. job[c].svc # job[d].svc
    BY <2>1, <2>2, Alone DEF Inv2, Inv1
  <2>4. status'[job[c].svc] = status[job[c].svc]
    BY <1>0, <1>6, <2>3 DEF Apply
  <2> QED
    BY <1>1, <2>1, <2>4
<1>7. ASSUME NEW p \in Processes, Crash(p) PROVE loaded'[c] = status'[job'[c].svc]
  <2>1. ProcessOf[c] # p
    BY <1>7 DEF Crash
  <2> QED
    BY <1>1, <1>7, <2>1 DEF Crash, dbVars
<1>8. ASSUME NEW s \in Services, DeleteService(s) PROVE loaded'[c] = status'[job'[c].svc]
  <2>1. job[c].svc # s /\ exists[job[c].svc] /\ UNCHANGED <<pc, job, loaded>>
    BY <1>0, <1>8 DEF DeleteService
  <2> QED
    BY <1>0, <1>1, <1>8, <2>1 DEF DeleteService
<1>9. CASE Tick \/ UNCHANGED vars
  BY <1>1, <1>9 DEF Tick, vars, dbVars
<1> QED
  BY <1>3, <1>4, <1>5, <1>6, <1>7, <1>8, <1>9
     DEF Next, Step, Fault, NothingRecent, FindMany, Refused, Fail, Publish, PublishFailed,
         Flush, Commit, CommitLost, dbVars

\* So in one process the commit leaves the new status in the row.
LEMMA StatusWritten ==
  ASSUME Inv2, NEW c \in Calls, pc[c] = "commit", exists[job[c].svc], Apply(c)
  PROVE  status' = [status EXCEPT ![job[c].svc] = NewStatus(job[c])]
<1>1. loaded[c] = status[job[c].svc]
  BY DEF Inv2, LoadedInv
<1> QED
  BY <1>1 DEF Apply

\* What a commit does to the service of the call, by the branch it took.
LEMMA ApplyEffect ==
  ASSUME Inv2, NEW c \in Calls, pc[c] = "commit", exists[job[c].svc], Apply(c)
  PROVE  LET s == job[c].svc IN
         /\ s \in Services
         /\ Opens(job[c]) => /\ open[s] = {} /\ open'[s] = {opened[s] + 1}
                             /\ opened'[s] = opened[s] + 1 /\ status'[s] = "down"
         /\ Resolves(job[c]) => /\ open[s] = {opened[s]} /\ open'[s] = {}
                                /\ opened'[s] = opened[s] /\ status'[s] = "up"
         /\ ~Opens(job[c]) /\ ~Resolves(job[c]) =>
              /\ open'[s] = open[s] /\ opened'[s] = opened[s]
              /\ status'[s] = "down" <=> open[s] # {}
         /\ \A t \in Services \ {s} :
              open'[t] = open[t] /\ opened'[t] = opened[t] /\ status'[t] = status[t]
<1> DEFINE s == job[c].svc
<1>1. s \in Services /\ opened \in [Services -> Nat] /\ open \in [Services -> SUBSET Nat]
      /\ status \in [Services -> Statuses]
  BY DEF Inv2, Inv1, TypeOK, Job
<1>2. job[c].seen = open[s] /\ open[s] \subseteq {opened[s]}
  BY <1>1 DEF Inv2, SeenInv, LastOpen
<1>3. /\ open'[s] = OpenAfter(job[c], s)
      /\ opened'[s] = IF Opens(job[c]) THEN opened[s] + 1 ELSE opened[s]
      /\ status'[s] = NewStatus(job[c])
      /\ \A t \in Services \ {s} :
           open'[t] = open[t] /\ opened'[t] = opened[t] /\ status'[t] = status[t]
  BY <1>1, StatusWritten DEF Apply
<1>4. Opens(job[c]) => Down(job[c]) /\ open[s] = {}
  BY <1>2 DEF Opens
<1>5. Resolves(job[c]) => ~Down(job[c]) /\ open[s] # {}
  BY <1>2 DEF Resolves
<1>6. ~Opens(job[c]) /\ ~Resolves(job[c]) => (Down(job[c]) <=> open[s] # {})
  BY <1>2 DEF Opens, Resolves
<1> HIDE DEF s
<1>7. Opens(job[c]) => open'[s] = {opened[s] + 1}
  BY <1>3, <1>4 DEF OpenAfter
<1>8. Resolves(job[c]) => open'[s] = {} /\ open[s] = {opened[s]}
  BY <1>2, <1>3, <1>4, <1>5 DEF OpenAfter
<1>9. status'[s] = IF Down(job[c]) THEN "down" ELSE "up"
  BY <1>3 DEF NewStatus
<1>10. ~Opens(job[c]) /\ ~Resolves(job[c]) => open'[s] = open[s]
  BY <1>3 DEF OpenAfter
<1>11. Resolves(job[c]) => ~Opens(job[c])
  BY <1>4, <1>5
<1> QED
  BY <1>1, <1>3, <1>4, <1>5, <1>6, <1>7, <1>8, <1>9, <1>10, <1>11 DEF s

\* The database part of Inv2 survives a commit of a call that then returns.
LEMMA ApplyKeeps ==
  ASSUME OneProcess, Inv2, NEW c \in Calls, pc[c] = "commit", exists[job[c].svc],
         Apply(c), Return(c)
  PROVE  SeenInv' /\ LastOpen' /\ StatusMatchesIncident'
<1> DEFINE s == job[c].svc
<1>1. LastOpen'
  <2> SUFFICES ASSUME NEW t \in Services
               PROVE  open'[t] \subseteq {opened'[t]} \ {0}
    BY DEF LastOpen
  <2>1. open[t] \subseteq {opened[t]} \ {0} /\ opened[t] \in Nat
    BY DEF Inv2, Inv1, LastOpen, TypeOK
  <2>2. CASE t = s
    BY <2>1, <2>2, ApplyEffect
  <2>3. CASE t # s
    BY <2>1, <2>3, ApplyEffect
  <2> QED
    BY <2>2, <2>3
<1>2. StatusMatchesIncident'
  <2> SUFFICES ASSUME NEW t \in Services, exists'[t]
               PROVE  status'[t] = "down" <=> open'[t] # {}
    BY DEF StatusMatchesIncident
  <2>1. status[t] = "down" <=> open[t] # {}
    BY DEF Inv2, StatusMatchesIncident, Apply
  <2>2. CASE t = s
    BY <2>2, ApplyEffect
  <2>3. CASE t # s
    BY <2>1, <2>3, ApplyEffect
  <2> QED
    BY <2>2, <2>3
<1>3. SeenInv'
  <2> SUFFICES ASSUME NEW d \in Calls, pc'[d] \in {"write", "commit"}, exists'[job'[d].svc]
               PROVE  job'[d].seen = open'[job'[d].svc]
    BY DEF SeenInv
  <2>1. d # c /\ pc[d] \in {"write", "commit"} /\ job'[d] = job[d]
    BY DEF Return, Inv2, Inv1, TypeOK
  <2>2. pc[c] \in Active /\ pc[d] \in Active
    BY <2>1 DEF Active, Labels
  <2>3. job[d].svc # s
    BY <2>1, <2>2, Alone DEF Inv2, Inv1
  <2>4. job[d].svc \in Services \ {s}
    BY <2>3 DEF Inv2, Inv1, TypeOK, Job
  <2>5. open'[job[d].svc] = open[job[d].svc]
    BY <2>4, ApplyEffect
  <2>6. job[d].seen = open[job[d].svc]
    BY <2>1 DEF Inv2, SeenInv, Apply
  <2> QED
    BY <2>1, <2>5, <2>6
<1> QED
  BY <1>1, <1>2, <1>3

\* Nothing announced before a commit is contradicted by it: a resolved
\* incident is not opened again.
LEMMA AnnouncedStays ==
  ASSUME Inv2, NEW c \in Calls, pc[c] = "commit", exists[job[c].svc], Apply(c),
         NEW t \in Services, NEW i \in DOMAIN notices[t]
  PROVE  /\ notices[t][i] \in Notice
         /\ notices[t][i].id \in 1..opened[t]
         /\ notices[t][i].id \in 1..opened'[t]
         /\ notices[t][i].event = "resolved" => notices[t][i].id \notin open'[t]
<1>1. notices[t] \in Seq(Notice) /\ opened[t] \in Nat
  BY DEF Inv2, Inv1, TypeOK
<1>2. notices[t][i] \in Notice
  BY <1>1
<1>3. notices[t][i].id \in 1..opened[t]
      /\ (notices[t][i].event = "resolved" => notices[t][i].id \notin open[t])
  BY DEF Inv2, NoticeAfterCommit
<1>4. CASE t = job[c].svc
  <2>1. opened'[t] = opened[t] \/ opened'[t] = opened[t] + 1
    BY <1>4, ApplyEffect
  <2>2. open'[t] \in {{}, open[t], {opened[t] + 1}}
    BY <1>4, ApplyEffect
  <2> QED
    BY <1>1, <1>2, <1>3, <2>1, <2>2
<1>5. CASE t # job[c].svc
  <2>1. open'[t] = open[t] /\ opened'[t] = opened[t]
    BY <1>5, ApplyEffect
  <2> QED
    BY <1>2, <1>3, <2>1
<1> QED
  BY <1>4, <1>5

\* The alert tasks stay in order when a commit adds its own.
LEMMA CommitAnnounces ==
  ASSUME OneProcess, Inv2, NEW c \in Calls, Commit(c)
  PROVE  NoticeAfterCommit' /\ NoticesInOrder'
<1> DEFINE s == job[c].svc
           new == Announces(job[c], s)
<1>1. /\ pc[c] = "commit" /\ exists[s] /\ Apply(c)
      /\ s \in Services
      /\ notices'[s] = notices[s] \o new
      /\ \A t \in Services \ {s} : notices'[t] = notices[t]
  BY DEF Commit, Inv2, Inv1, TypeOK, Job
<1>2. /\ notices \in [Services -> Seq(Notice)] /\ opened[s] \in Nat
      /\ opened'[s] \in Nat
  BY <1>1, ApplyType DEF Inv2, Inv1, TypeOK
<1>3. CASE new = <<>>
  <2>1. notices' = notices
    BY <1>1, <1>2, <1>3 DEF Commit, Inv2, Inv1, TypeOK
  <2>2. NoticesInOrder'
    BY <2>1 DEF NoticesInOrder, Inv2
  <2>3. NoticeAfterCommit'
    BY <1>1, <2>1, AnnouncedStays DEF NoticeAfterCommit
  <2> QED
    BY <2>2, <2>3
<1>4. ASSUME NEW x \in Notice, new = <<x>>, x.id \in 1..opened'[s],
             x.event = "resolved" => x.id \notin open'[s],
             \A i \in DOMAIN notices[s] : Before(notices[s][i], x)
      PROVE  NoticeAfterCommit' /\ NoticesInOrder'
  <2>1. notices'[s] = Append(notices[s], x)
    BY <1>1, <1>2, <1>4
  <2>2. \A i \in DOMAIN notices'[s] :
          \/ i \in DOMAIN notices[s] /\ notices'[s][i] = notices[s][i]
          \/ i = Len(notices[s]) + 1 /\ notices'[s][i] = x
    BY <1>2, <2>1
  <2>3. NoticeAfterCommit'
    <3> SUFFICES ASSUME NEW t \in Services, NEW i \in DOMAIN notices'[t]
                 PROVE  /\ notices'[t][i].id \in 1..opened'[t]
                        /\ notices'[t][i].event = "resolved" => notices'[t][i].id \notin open'[t]
      BY DEF NoticeAfterCommit
    <3>1. CASE i \in DOMAIN notices[t] /\ notices'[t][i] = notices[t][i]
      BY <1>1, <3>1, AnnouncedStays
    <3>2. CASE t = s /\ notices'[t][i] = x
      BY <1>4, <3>2
    <3> QED
      BY <1>1, <2>2, <3>1, <3>2
  <2>4. NoticesInOrder'
    <3> SUFFICES ASSUME NEW t \in Services, NEW i \in DOMAIN notices'[t],
                        NEW k \in DOMAIN notices'[t], i < k
                 PROVE  Before(notices'[t][i], notices'[t][k])
      BY DEF NoticesInOrder
    <3>1. CASE t # s
      <4>1. notices'[t] = notices[t]
        BY <1>1, <3>1
      <4> QED
        BY <4>1 DEF Inv2, NoticesInOrder
    <3>2. CASE t = s
      <4>1. i \in DOMAIN notices[s] /\ notices'[s][i] = notices[s][i]
        BY <1>2, <2>1, <2>2, <3>2
      <4>2. CASE k \in DOMAIN notices[s] /\ notices'[s][k] = notices[s][k]
        BY <1>1, <3>2, <4>1, <4>2 DEF Inv2, NoticesInOrder
      <4>3. CASE notices'[s][k] = x
        BY <1>4, <3>2, <4>1, <4>3
      <4> QED
        BY <2>2, <3>2, <4>2, <4>3
    <3> QED
      BY <3>1, <3>2
  <2> QED
    BY <2>3, <2>4
<1>5. CASE Opens(job[c])
  <2> DEFINE x == [event |-> "opened", id |-> opened[s] + 1]
  <2>1. new = <<x>> /\ x \in Notice
    BY <1>2, <1>5 DEF Announces, Notice
  <2>2. x.id \in 1..opened'[s] /\ x.event # "resolved"
    BY <1>1, <1>2, <1>5, ApplyEffect
  <2>3. \A i \in DOMAIN notices[s] : Before(notices[s][i], x)
    BY <1>1, <1>2, AnnouncedStays DEF Before
  <2> QED
    BY <1>4, <2>1, <2>2, <2>3
<1>6. CASE ~Opens(job[c]) /\ Resolves(job[c])
  <2> DEFINE x == [event |-> "resolved", id |-> opened[s]]
  <2>1. open[s] = {opened[s]} /\ job[c].seen = open[s] /\ open'[s] = {}
        /\ opened'[s] = opened[s]
    BY <1>1, <1>6, ApplyEffect DEF Inv2, SeenInv
  <2>2. new = <<x>> /\ x \in Notice
    BY <1>2, <1>6, <2>1 DEF Announces, Notice
  <2>3. \A i \in DOMAIN notices[s] :
          /\ notices[s][i] \in Notice
          /\ notices[s][i].id \in 1..opened[s]
          /\ notices[s][i].event = "resolved" => notices[s][i].id # opened[s]
    BY <1>1, <2>1, AnnouncedStays DEF Inv2, NoticeAfterCommit
  <2>4. \A i \in DOMAIN notices[s] : Before(notices[s][i], x)
    BY <1>2, <2>3 DEF Before, Notice
  <2>5. x.id \in 1..opened'[s]
    <3>1. opened[s] \in open[s]
      BY <2>1
    <3>2. opened[s] # 0
      BY <1>1, <3>1 DEF Inv2, LastOpen
    <3>3. opened'[s] = opened[s] /\ opened[s] \in Nat
      BY <1>2, <2>1
    <3> QED
      BY <3>2, <3>3
  <2> QED
    BY <1>4, <2>1, <2>2, <2>4, <2>5
<1> QED
  BY <1>3, <1>5, <1>6 DEF Announces

\* At the start no service has an incident or a verdict.
LEMMA Inv2Init == Init => Inv2
<1> SUFFICES ASSUME Init PROVE Inv2
  OBVIOUS
<1>1. SeenInv /\ LoadedInv
  BY DEF Init, SeenInv, LoadedInv
<1>2. LastOpen /\ StatusMatchesIncident
  BY DEF Init, LastOpen, StatusMatchesIncident
<1>3. NoticeAfterCommit /\ NoticesInOrder
  BY DEF Init, NoticeAfterCommit, NoticesInOrder
<1> QED
  BY Inv1Init, <1>1, <1>2, <1>3 DEF Inv2

\* In one process every step keeps incidents, status and notices consistent.
LEMMA Inv2Next == ASSUME OneProcess PROVE Inv2 /\ [Next]_vars => Inv2'
<1> SUFFICES ASSUME Inv2, [Next]_vars PROVE Inv2'
  OBVIOUS
<1>0. Inv1' /\ pc \in [Calls -> Labels] /\ job \in [Calls -> Job]
  BY Inv1Next DEF Inv2, Inv1, TypeOK
<1>18. LoadedInv'
  BY LoadedKept
<1> USE <1>18
<1>19. ASSUME NEW c \in Calls, AskForLock(c) PROVE Inv2'
  BY <1>0, <1>19, ReadOnly DEF AskForLock
<1>1. ASSUME NEW c \in Calls, NEW r \in Row, Ingest(c, r) PROVE Inv2'
  <2>1. SeenInv'
    BY <1>0, <1>1 DEF Ingest, Goto, SeenInv, Inv2
  <2>2. LastOpen' /\ StatusMatchesIncident'
    BY <1>1 DEF Ingest, LastOpen, StatusMatchesIncident, Inv2
  <2>3. NoticeAfterCommit' /\ NoticesInOrder'
    BY <1>1 DEF Ingest, NoticeAfterCommit, NoticesInOrder, Inv2
  <2> QED
    BY <1>0, <2>1, <2>2, <2>3 DEF Inv2
<1>2. ASSUME NEW c \in Calls, Acquire(c) PROVE Inv2'
  BY <1>0, <1>2, ReadOnly DEF Acquire, Goto
<1>3. ASSUME NEW c \in Calls, CountTotal(c) PROVE Inv2'
  BY <1>0, <1>3, ReadOnly DEF CountTotal, Goto
<1>4. ASSUME NEW c \in Calls, NothingRecent(c) PROVE Inv2'
  BY <1>0, <1>4, ReadOnly DEF NothingRecent, Return
<1>5. ASSUME NEW c \in Calls, CountFailing(c) PROVE Inv2'
  BY <1>0, <1>5, ReadOnly DEF CountFailing, Goto
<1>6. ASSUME NEW c \in Calls, FindOpen(c) PROVE Inv2'
  <2>1. job'[c].seen = open[job'[c].svc]
    BY <1>0, <1>6 DEF FindOpen, Job
  <2> QED
    BY <1>0, <1>6, <2>1, ReadOnly DEF FindOpen, Goto
<1>7. ASSUME NEW c \in Calls, FindMany(c) PROVE Inv2'
  BY <1>0, <1>7, ReadOnly DEF FindMany, Return
<1>8. ASSUME NEW c \in Calls, Flush(c) PROVE Inv2'
  BY <1>0, <1>8, ReadOnly DEF Flush, Goto
<1>9. ASSUME NEW c \in Calls, Publish(c) \/ PublishFailed(c) PROVE Inv2'
  BY <1>8, <1>9 DEF Publish, PublishFailed
<1>10. ASSUME NEW c \in Calls, Commit(c) PROVE Inv2'
  <2>1. SeenInv' /\ LastOpen' /\ StatusMatchesIncident'
    BY <1>10, ApplyKeeps DEF Commit
  <2>2. NoticeAfterCommit' /\ NoticesInOrder'
    BY <1>10, CommitAnnounces
  <2> QED
    BY <1>0, <2>1, <2>2 DEF Inv2
<1>11. ASSUME NEW c \in Calls, CommitLost(c) PROVE Inv2'
  <2>1. SeenInv' /\ LastOpen' /\ StatusMatchesIncident'
    BY <1>11, ApplyKeeps DEF CommitLost
  <2>2. notices' = notices
    BY <1>11 DEF CommitLost
  <2>3. NoticesInOrder'
    BY <2>2 DEF NoticesInOrder, Inv2
  <2>4. NoticeAfterCommit'
    BY <1>11, <2>2, AnnouncedStays DEF CommitLost, NoticeAfterCommit
  <2> QED
    BY <1>0, <2>1, <2>3, <2>4 DEF Inv2
<1>12. ASSUME NEW c \in Calls, Refused(c) PROVE Inv2'
  BY <1>0, <1>12, ReadOnly DEF Refused, Return
<1>13. ASSUME NEW c \in Calls, Fail(c) PROVE Inv2'
  BY <1>0, <1>13, ReadOnly DEF Fail, Return
<1>14. ASSUME NEW p \in Processes, Crash(p) PROVE Inv2'
  BY <1>0, <1>14, ReadOnly DEF Crash
<1>15. ASSUME NEW s \in Services, DeleteService(s) PROVE Inv2'
  <2>0. /\ pc' = pc /\ job' = job /\ notices' = notices /\ opened' = opened
        /\ exists' = [exists EXCEPT ![s] = FALSE]
        /\ open' = [open EXCEPT ![s] = {}]
        /\ status' = [status EXCEPT ![s] = "unknown"]
        /\ exists \in [Services -> BOOLEAN]
        /\ open \in [Services -> SUBSET Nat]
        /\ status \in [Services -> Statuses]
    BY <1>15 DEF DeleteService, Inv2, Inv1, TypeOK
  <2>1. SeenInv'
    <3> SUFFICES ASSUME NEW c \in Calls, pc[c] \in {"write", "commit"}, exists'[job[c].svc]
                 PROVE  job[c].seen = open'[job[c].svc]
      BY <2>0 DEF SeenInv
    <3>1. job[c].svc \in Services /\ job[c].svc # s /\ exists[job[c].svc]
      BY <1>0, <2>0 DEF Job
    <3> QED
      BY <2>0, <3>1 DEF Inv2, SeenInv
  <2>2. LastOpen'
    BY <2>0 DEF LastOpen, Inv2
  <2>3. StatusMatchesIncident'
    BY <2>0 DEF StatusMatchesIncident, Inv2
  <2>4. NoticesInOrder'
    BY <2>0 DEF NoticesInOrder, Inv2
  <2>5. NoticeAfterCommit'
    BY <2>0 DEF NoticeAfterCommit, Inv2
  <2> QED
    BY <1>0, <2>1, <2>2, <2>3, <2>4, <2>5 DEF Inv2
<1>16. CASE Tick
  BY <1>0, <1>16, ReadOnly DEF Tick
<1>17. CASE UNCHANGED vars
  BY <1>0, <1>17, ReadOnly DEF vars
<1> QED
  BY <1>1, <1>2, <1>3, <1>4, <1>5, <1>6, <1>7, <1>9, <1>10, <1>11, <1>12, <1>13,
     <1>14, <1>15, <1>16, <1>17, <1>19 DEF Next, Step, Fault

\* The inductive invariant of one process.
THEOREM OneProcessInvariant == ASSUME OneProcess PROVE Spec => []Inv2
<1>1. Init => Inv2
  BY Inv2Init
<1>2. Inv2 /\ [Next]_vars => Inv2'
  BY Inv2Next
<1> QED
  BY <1>1, <1>2, PTL DEF Spec

\* With one coordinator process a service never has two open incidents,
\* however many calls run at once and whatever fails (detector.py:30).
THEOREM OneOpenIncident == ASSUME OneProcess PROVE Spec => []AtMostOneOpen
<1>1. Inv2 => AtMostOneOpen
  BY DEF Inv2, LastOpen, AtMostOneOpen
<1> QED
  BY <1>1, OneProcessInvariant, PTL

\* With one coordinator process the status row says "down" exactly while the
\* service has an open incident, whatever fails and whatever is deleted.
THEOREM StatusAgrees == ASSUME OneProcess PROVE Spec => []StatusMatchesIncident
<1>1. Inv2 => StatusMatchesIncident
  BY DEF Inv2
<1> QED
  BY <1>1, OneProcessInvariant, PTL

\* With one coordinator process the alert tasks start in the order of the
\* incidents, no task twice.
THEOREM AlertOrder == ASSUME OneProcess PROVE Spec => []NoticesInOrder
<1>1. Inv2 => NoticesInOrder
  BY DEF Inv2
<1> QED
  BY <1>1, OneProcessInvariant, PTL

=============================================================================
