------------------------- MODULE ResultConsumerProofs -------------------------
(***************************************************************************)
(* Proofs about ResultConsumer, for every number of workers, results and    *)
(* failures: each entry has one handler, the detector hears of a result at  *)
(* most once, an acknowledgement loses nothing, and the consumer implements *)
(* the ledger; and while nothing fails, no entry is left in nobody's hands. *)
(***************************************************************************)
EXTENDS ResultConsumer, StreamLemmas, FiniteSetTheorems

Consumers == {CONSUMER_NAME}

\* Batches hold delivered entries in increasing order, so none twice.
Ordered ==
  \A w \in Workers : \A j, k \in DOMAIN batch[w] : j < k => batch[w][j] < batch[w][k]

\* A worker between two awaits knows what it has established.
DetectInv ==
  \A w \in Workers : pc[w] = "detect" =>
    /\ Data(w) \in Keys
    /\ Conflicts(Data(w))
    /\ fed[Data(w)] = 0

DetectOnce ==
  \A w, v \in Workers : pc[w] = "detect" /\ pc[v] = "detect" /\ w # v => Data(w) # Data(v)

AckInv == \A w \in Workers : pc[w] = "ack" => Accounted(Data(w))

CInv ==
  /\ TypeOK
  /\ OneHandler
  /\ Ordered
  /\ DetectInv
  /\ DetectOnce
  /\ AckInv
  /\ FedAtMostOnce

-----------------------------------------------------------------------------
\* Facts about batches

LEMMA HeadHeld ==
  ASSUME TypeOK, NEW w \in Workers, pc[w] \in {"handle", "detect", "ack"}
  PROVE  /\ batch[w] \in Seq(Nat \ {0}) /\ batch[w] # <<>>
         /\ 1 \in DOMAIN batch[w] /\ Entry(w) = batch[w][1]
         /\ Entry(w) \in Held(w)
<1>1. batch[w] \in Seq(Nat \ {0}) /\ batch[w] # <<>>
  BY DEF TypeOK
<1>2. 1 \in DOMAIN batch[w] /\ Head(batch[w]) = batch[w][1]
  BY <1>1
<1> QED
  BY <1>1, <1>2 DEF Entry, Held

\* What a worker has in hand is in the log.
LEMMA HeldInLog ==
  ASSUME TypeOK, OneHandler, NEW w \in Workers, pc[w] \in {"handle", "detect", "ack"}
  PROVE  /\ Entry(w) \in Pending(results) /\ Entry(w) \in Ids(results)
         /\ Data(w) \in Payload
<1>1. Entry(w) \in Pending(results)
  BY HeadHeld DEF OneHandler
<1>2. Entry(w) \in 1..results.last /\ results.last \in 0..Len(results.log)
      /\ results.log \in Seq(Payload)
  BY <1>1 DEF TypeOK, IsStream
<1>3. Entry(w) \in 1..Len(results.log)
  BY <1>2
<1> QED
  BY <1>1, <1>2, <1>3 DEF Ids, Data

\* The rest of an ordered batch is ordered and does not hold its head.
LEMMA TailFacts ==
  ASSUME NEW b \in Seq(Nat \ {0}), b # <<>>,
         \A j, k \in DOMAIN b : j < k => b[j] < b[k]
  PROVE  /\ Tail(b) \in Seq(Nat \ {0})
         /\ Tail(b) = <<>> <=> ~(Len(b) > 1)
         /\ \A j, k \in DOMAIN Tail(b) : j < k => Tail(b)[j] < Tail(b)[k]
         /\ \A k \in DOMAIN Tail(b) : k + 1 \in DOMAIN b /\ Tail(b)[k] = b[k + 1]
         /\ \A k \in DOMAIN Tail(b) : Tail(b)[k] # Head(b)
<1>1. Tail(b) \in Seq(Nat \ {0}) /\ Len(Tail(b)) = Len(b) - 1 /\ Len(b) \in Nat /\ Len(b) > 0
  OBVIOUS
<1>2. \A k \in DOMAIN Tail(b) : k + 1 \in DOMAIN b /\ Tail(b)[k] = b[k + 1] /\ k \in Nat /\ k >= 1
  BY <1>1
<1>3. \A j, k \in DOMAIN Tail(b) : j < k => Tail(b)[j] < Tail(b)[k]
  BY <1>2
<1>4. \A k \in DOMAIN Tail(b) : Tail(b)[k] # Head(b)
  <2> SUFFICES ASSUME NEW k \in DOMAIN Tail(b) PROVE Tail(b)[k] # Head(b)
    OBVIOUS
  <2>1. Head(b) = b[1] /\ 1 \in DOMAIN b /\ 1 < k + 1 /\ k + 1 \in DOMAIN b
    BY <1>1, <1>2
  <2>2. b[1] < b[k + 1]
    BY <2>1
  <2>3. b[1] \in Nat \ {0} /\ b[k + 1] \in Nat \ {0}
    BY <2>1
  <2> QED
    BY <1>2, <2>1, <2>2, <2>3
<1>5. Tail(b) = <<>> <=> ~(Len(b) > 1)
  BY <1>1
<1> QED
  BY <1>1, <1>2, <1>3, <1>4, <1>5

\* What the reply of a read looks like.
LEMMA BatchFacts ==
  ASSUME NEW P, NEW C, NEW st, IsStream(st, P, C), NEW count \in Nat \ {0},
         NewIds(st, count) # {}
  PROVE  LET b == Batch(st, count) IN
         /\ b \in Seq(Nat \ {0}) /\ b # <<>>
         /\ \A j, k \in DOMAIN b : j < k => b[j] < b[k]
         /\ \A k \in DOMAIN b : b[k] \in NewIds(st, count)
<1> DEFINE b == Batch(st, count)
           lo == NewFrom(st)
           hi == NewUpTo(st, count)
           n == hi + 1 - lo
<1>1. st.last \in Nat /\ st.first \in Nat \ {0} /\ Len(st.log) \in Nat
  BY DEF IsStream
<1>2. lo \in Nat \ {0} /\ hi \in Nat
  BY <1>1 DEF NewFrom, NewUpTo
<1>3. NewIds(st, count) = lo..hi
  BY DEF NewIds
<1>4. lo <= hi
  BY <1>2, <1>3
<1>5. b = [k \in 1..n |-> lo + k - 1]
  BY DEF Batch
<1> HIDE DEF b, lo, hi
<1>6. n \in Nat \ {0} /\ \A k \in 1..n : lo + k - 1 \in Nat \ {0} /\ lo + k - 1 \in lo..hi
  BY <1>2, <1>4
<1>7. b \in Seq(Nat \ {0}) /\ Len(b) = n /\ b # <<>>
  BY <1>5, <1>6
<1>8. \A k \in DOMAIN b : b[k] \in NewIds(st, count)
  BY <1>3, <1>5, <1>6
<1>9. \A j, k \in DOMAIN b : j < k => b[j] < b[k]
  BY <1>2, <1>5, <1>6
<1> QED
  BY <1>7, <1>8, <1>9 DEF b

-----------------------------------------------------------------------------
\* What the steps have in common

Busy == {"handle", "detect", "ack"}

LogKept == \A i \in Ids(results) : results'.log[i] = results.log[i]

\* A step that keeps every worker at "detect" and "ack" where it is, takes no
\* row away and calls no detector, preserves what those workers rely on.
LEMMA Frame ==
  ASSUME CInv, LogKept, fed' = fed, deleted' = deleted, rows \subseteq rows',
         \A v \in Workers : pc'[v] \in {"detect", "ack"} =>
           pc'[v] = pc[v] /\ batch'[v] = batch[v]
  PROVE  DetectInv' /\ DetectOnce' /\ AckInv' /\ FedAtMostOnce'
<1>1. ASSUME NEW v \in Workers, pc'[v] \in {"detect", "ack"}
      PROVE  pc[v] = pc'[v] /\ Data(v)' = Data(v) /\ Data(v) \in Payload
  <2>1. pc[v] = pc'[v] /\ batch'[v] = batch[v] /\ pc[v] \in Busy
    BY <1>1 DEF Busy
  <2>2. Entry(v)' = Entry(v) /\ Entry(v) \in Ids(results) /\ Data(v) \in Payload
    BY <2>1, HeldInLog DEF Entry, CInv, Busy
  <2> QED
    BY <2>1, <2>2 DEF Data, LogKept
<1>2. DetectInv'
  BY <1>1 DEF CInv, DetectInv, Conflicts
<1>3. DetectOnce'
  BY <1>1 DEF CInv, DetectOnce
<1>4. AckInv'
  BY <1>1 DEF CInv, AckInv, Accounted
<1>5. FedAtMostOnce'
  BY DEF CInv, FedAtMostOnce
<1> QED
  BY <1>2, <1>3, <1>4, <1>5

\* A step in which workers only let go of entries, and only entries that all
\* of them let go of leave the pending list, keeps the handlers apart.
LEMMA LetGo ==
  ASSUME OneHandler, NEW gone,
         \A v \in Workers : Held(v)' \subseteq Held(v) \ gone,
         Pending(results) \ gone \subseteq Pending(results')
  PROVE  OneHandler'
BY DEF OneHandler, Pending

\* A step that moves no entry keeps the handlers apart.
LEMMA SameHands ==
  ASSUME CInv, results' = results, batch' = batch
  PROVE  OneHandler'
<1>1. Pending(results)' = Pending(results)
  BY DEF Pending
<1>2. \A v \in Workers : Held(v)' = Held(v)
  BY DEF Held
<1> QED
  BY <1>1, <1>2 DEF CInv, OneHandler

\* The handler returns and the loop takes the next entry of the batch.
LEMMA NextEntryKeeps ==
  ASSUME CInv, NEW w \in Workers, pc[w] \in Busy, NextEntry(w)
  PROVE  /\ pc' \in [Workers -> Labels] /\ batch' \in [Workers -> Seq(Nat \ {0})]
         /\ \A v \in Workers : batch'[v] = <<>> <=> pc'[v] \in {"read", "down"}
         /\ Ordered'
         /\ Held(w)' \subseteq Held(w) \ {Entry(w)}
         /\ \A v \in Workers : pc'[v] \in {"detect", "ack"} =>
               pc'[v] = pc[v] /\ batch'[v] = batch[v]
         /\ \A v \in Workers \ {w} : batch'[v] = batch[v]
<1>1. /\ pc \in [Workers -> Labels] /\ batch \in [Workers -> Seq(Nat \ {0})]
      /\ \A v \in Workers : batch[v] = <<>> <=> pc[v] \in {"read", "down"}
  BY DEF CInv, TypeOK
<1>2. batch[w] # <<>> /\ batch[w] \in Seq(Nat \ {0})
  BY <1>1 DEF Busy
<1>3. \A j, k \in DOMAIN batch[w] : j < k => batch[w][j] < batch[w][k]
  BY DEF CInv, Ordered
<1> DEFINE rest == Tail(batch[w])
<1>4. /\ rest \in Seq(Nat \ {0})
      /\ rest = <<>> <=> ~(Len(batch[w]) > 1)
      /\ \A j, k \in DOMAIN rest : j < k => rest[j] < rest[k]
      /\ \A k \in DOMAIN rest : k + 1 \in DOMAIN batch[w] /\ rest[k] = batch[w][k + 1]
      /\ \A k \in DOMAIN rest : rest[k] # Head(batch[w])
  BY <1>2, <1>3, TailFacts
<1>5. batch'[w] = rest /\ \A v \in Workers \ {w} : batch'[v] = batch[v] /\ pc'[v] = pc[v]
  BY <1>1 DEF NextEntry
<1>6. pc'[w] = IF Len(batch[w]) > 1 THEN "handle" ELSE "read"
  BY <1>1 DEF NextEntry
<1> HIDE DEF rest
<1>7. pc' \in [Workers -> Labels]
  BY <1>1 DEF NextEntry, Labels
<1>8. batch' \in [Workers -> Seq(Nat \ {0})]
  BY <1>1, <1>4 DEF NextEntry, rest
<1>9. \A v \in Workers : batch'[v] = <<>> <=> pc'[v] \in {"read", "down"}
  BY <1>1, <1>4, <1>5, <1>6
<1>10. Ordered'
  BY <1>4, <1>5 DEF Ordered, CInv
<1>11. Held(w)' \subseteq Held(w) \ {Entry(w)}
  BY <1>4, <1>5 DEF Held, Entry
<1> QED
  BY <1>5, <1>6, <1>7, <1>8, <1>9, <1>10, <1>11

\* It lets go of the entry it has handled and of no other.
LEMMA RestInHand ==
  ASSUME CInv, NEW w \in Workers, pc[w] \in Busy, NextEntry(w),
         NEW i \in Held(w), i # Entry(w)
  PROVE  i \in Held(w)'
<1>1. batch'[w] = Tail(batch[w])
  BY DEF NextEntry, CInv, TypeOK
<1>2. batch[w] \in Seq(Nat \ {0}) /\ batch[w] # <<>> /\ Entry(w) = batch[w][1]
  BY HeadHeld DEF CInv, Busy
<1>3. PICK k \in DOMAIN batch[w] : batch[w][k] = i
  BY DEF Held
<1>4. k \in 2..Len(batch[w])
  BY <1>2, <1>3
<1>5. k - 1 \in DOMAIN Tail(batch[w]) /\ Tail(batch[w])[k - 1] = i
  BY <1>2, <1>3, <1>4
<1> QED
  BY <1>1, <1>5 DEF Held

\* A worker drops its batch.
LEMMA AbandonKeeps ==
  ASSUME CInv, NEW w \in Workers, NEW label \in {"read", "down"}, Abandon(w, label)
  PROVE  /\ pc' \in [Workers -> Labels] /\ batch' \in [Workers -> Seq(Nat \ {0})]
         /\ \A v \in Workers : batch'[v] = <<>> <=> pc'[v] \in {"read", "down"}
         /\ Ordered'
         /\ Held(w)' = {}
         /\ \A v \in Workers : pc'[v] \in {"detect", "ack"} =>
               pc'[v] = pc[v] /\ batch'[v] = batch[v]
         /\ \A v \in Workers \ {w} : batch'[v] = batch[v]
<1>1. /\ pc \in [Workers -> Labels] /\ batch \in [Workers -> Seq(Nat \ {0})]
      /\ \A v \in Workers : batch[v] = <<>> <=> pc[v] \in {"read", "down"}
  BY DEF CInv, TypeOK
<1>2. /\ batch'[w] = <<>> /\ pc'[w] = label
      /\ \A v \in Workers \ {w} : batch'[v] = batch[v] /\ pc'[v] = pc[v]
  BY <1>1 DEF Abandon
<1>3. pc' \in [Workers -> Labels] /\ batch' \in [Workers -> Seq(Nat \ {0})]
  BY <1>1 DEF Abandon, Labels
<1>4. Ordered'
  BY <1>2 DEF Ordered, CInv
<1>5. Held(w)' = {}
  BY <1>2 DEF Held
<1> QED
  BY <1>1, <1>2, <1>3, <1>4, <1>5

\* A worker moves on with its batch.
LEMMA GotoKeeps ==
  ASSUME CInv, NEW w \in Workers, pc[w] \in Busy, NEW label \in Busy, Goto(w, label)
  PROVE  /\ pc' \in [Workers -> Labels] /\ batch' = batch
         /\ \A v \in Workers : batch'[v] = <<>> <=> pc'[v] \in {"read", "down"}
         /\ Ordered'
         /\ pc'[w] = label /\ \A v \in Workers \ {w} : pc'[v] = pc[v]
<1>1. /\ pc \in [Workers -> Labels]
      /\ \A v \in Workers : batch[v] = <<>> <=> pc[v] \in {"read", "down"}
  BY DEF CInv, TypeOK
<1>2. Ordered'
  BY DEF Goto, Ordered, CInv
<1> QED
  BY <1>1, <1>2 DEF Goto, Busy, Labels

-----------------------------------------------------------------------------
\* The invariant

\* The invariant holds at the start, with nothing read and nothing stored.
LEMMA CInvInit == Init => CInv
<1> SUFFICES ASSUME Init PROVE CInv
  OBVIOUS
<1>1. IsStream(results, Payload, Consumers)
  BY EmptyStreamType DEF Init
<1>2. TypeOK
  BY <1>1, FaultsAssumption DEF Init, TypeOK, Consumers, Labels
<1>3. \A w \in Workers : Held(w) = {} /\ pc[w] = "read"
  BY DEF Init, Held
<1>4. OneHandler
  BY <1>3 DEF OneHandler
<1>5. Ordered
  BY DEF Init, Ordered
<1>6. DetectInv /\ DetectOnce /\ AckInv
  BY <1>3 DEF DetectInv, DetectOnce, AckInv
<1>7. FedAtMostOnce
  BY DEF Init, FedAtMostOnce
<1> QED
  BY <1>2, <1>4, <1>5, <1>6, <1>7 DEF CInv

\* Delivering entries keeps the stream's type and the log, and the delivered
\* entries are in no worker's hands.
LEMMA Delivered ==
  ASSUME CInv, results' = XReadGroup(results, CONSUMER_NAME, BatchSize)
  PROVE  /\ IsStream(results', Payload, Consumers)
         /\ LogKept
         /\ Pending(results') = Pending(results) \cup NewIds(results, BatchSize)
         /\ \A w \in Workers : Held(w) \cap NewIds(results, BatchSize) = {}
<1>1. IsStream(results, Payload, Consumers) /\ CONSUMER_NAME \in Consumers
  BY DEF CInv, TypeOK, Consumers
<1>2. /\ IsStream(results', Payload, Consumers)
      /\ results'.log = results.log
      /\ Pending(results') = Pending(results) \cup NewIds(results, BatchSize)
      /\ \A i \in NewIds(results, BatchSize) : i > results.last
  BY <1>1, ConsumerAssumption, XReadGroupKeeps
<1>3. \A w \in Workers : \A i \in Held(w) : i \in 1..results.last
  BY <1>1 DEF CInv, OneHandler, IsStream
<1>4. results.last \in Nat
  BY <1>1 DEF IsStream
<1> QED
  BY <1>2, <1>3, <1>4 DEF LogKept

\* XACK keeps the stream's type and the log.
LEMMA Acked ==
  ASSUME CInv, NEW id, results' = XAck(results, id)
  PROVE  /\ IsStream(results', Payload, Consumers)
         /\ LogKept
         /\ Pending(results') = Pending(results) \ {id}
<1>1. IsStream(results, Payload, Consumers)
  BY DEF CInv, TypeOK, Consumers
<1> QED
  BY <1>1, XAckKeeps DEF LogKept

\* The entry one worker has in hand is in no other worker's batch.
LEMMA NotOthers ==
  ASSUME CInv, NEW w \in Workers, pc[w] \in Busy, NEW v \in Workers, v # w
  PROVE  Entry(w) \notin Held(v)
BY HeadHeld DEF CInv, OneHandler, Busy

\* Every step of a worker, a fault, a report or a deletion preserves it.
LEMMA CInvNext == CInv /\ [Next]_vars => CInv'
<1> SUFFICES ASSUME CInv, [Next]_vars PROVE CInv'
  OBVIOUS
<1>a. /\ TypeOK /\ IsStream(results, Payload, Consumers)
      /\ faults \in 0..MaxFaults
  BY DEF CInv, TypeOK, Consumers
<1>b. ASSUME Faulty PROVE faults' \in 0..MaxFaults
  BY <1>a, <1>b, FaultsAssumption DEF Faulty
<1>1. ASSUME NEW w \in Workers, Read(w) PROVE CInv'
  <2> DEFINE b == Batch(results, BatchSize)
             new == NewIds(results, BatchSize)
  <2>1. /\ b \in Seq(Nat \ {0}) /\ b # <<>>
        /\ \A j, k \in DOMAIN b : j < k => b[j] < b[k]
        /\ \A k \in DOMAIN b : b[k] \in new
    BY <1>1, <1>a, ConsumerAssumption, BatchFacts DEF Read
  <2>2. /\ IsStream(results', Payload, Consumers)
        /\ LogKept
        /\ Pending(results') = Pending(results) \cup new
        /\ \A v \in Workers : Held(v) \cap new = {}
    BY <1>1, Delivered DEF Read
  <2>3. /\ batch'[w] = b /\ pc'[w] = "handle"
        /\ \A v \in Workers \ {w} : batch'[v] = batch[v] /\ pc'[v] = pc[v]
    BY <1>1, <1>a DEF Read, TypeOK
  <2> HIDE DEF b, new
  <2>4. TypeOK'
    <3>1. pc' \in [Workers -> Labels]
      BY <1>1, <1>a DEF Read, TypeOK, Labels
    <3>2. batch' \in [Workers -> Seq(Nat \ {0})]
      BY <1>1, <1>a, <2>1 DEF Read, TypeOK, b
    <3>3. \A v \in Workers : batch'[v] = <<>> <=> pc'[v] \in {"read", "down"}
      BY <1>a, <2>1, <2>3 DEF TypeOK
    <3> QED
      BY <1>1, <1>a, <2>2, <3>1, <3>2, <3>3 DEF Read, TypeOK, Consumers
  <2>5. /\ Held(w)' \subseteq new
        /\ \A v \in Workers \ {w} : Held(v)' = Held(v)
    BY <2>1, <2>3 DEF Held
  <2>6. OneHandler'
    BY <2>2, <2>5 DEF OneHandler, CInv, Pending
  <2>7. Ordered'
    BY <2>1, <2>3 DEF Ordered, CInv
  <2>8. DetectInv' /\ DetectOnce' /\ AckInv' /\ FedAtMostOnce'
    BY <1>1, <2>2, <2>3, Frame DEF Read
  <2> QED
    BY <2>4, <2>6, <2>7, <2>8 DEF CInv
<1>2. ASSUME NEW w \in Workers, ReadLost(w) PROVE CInv'
  <2>1. /\ IsStream(results', Payload, Consumers)
        /\ LogKept
        /\ Pending(results') = Pending(results) \cup NewIds(results, BatchSize)
    BY <1>2, Delivered DEF ReadLost
  <2>2. TypeOK'
    BY <1>2, <1>a, <1>b, <2>1 DEF ReadLost, TypeOK, Consumers
  <2>3. \A v \in Workers : Held(v)' = Held(v)
    BY <1>2 DEF ReadLost, Held
  <2>4. OneHandler' /\ Ordered'
    BY <1>2, <2>1, <2>3 DEF ReadLost, OneHandler, Ordered, CInv, Pending
  <2>5. DetectInv' /\ DetectOnce' /\ AckInv' /\ FedAtMostOnce'
    BY <1>2, <2>1, Frame DEF ReadLost
  <2> QED
    BY <2>2, <2>4, <2>5 DEF CInv
<1>c. ASSUME NEW w \in Workers, pc[w] \in Busy, NEW label \in Busy, Goto(w, label),
             results' = results
      PROVE  /\ pc' \in [Workers -> Labels] /\ batch' = batch
             /\ \A v \in Workers : batch'[v] = <<>> <=> pc'[v] \in {"read", "down"}
             /\ pc'[w] = label /\ \A v \in Workers \ {w} : pc'[v] = pc[v]
             /\ OneHandler' /\ Ordered'
             /\ \A v \in Workers : Data(v)' = Data(v) /\ Entry(v)' = Entry(v)
  <2>1. /\ pc' \in [Workers -> Labels] /\ batch' = batch
        /\ \A v \in Workers : batch'[v] = <<>> <=> pc'[v] \in {"read", "down"}
        /\ Ordered'
        /\ pc'[w] = label /\ \A v \in Workers \ {w} : pc'[v] = pc[v]
    BY <1>c, GotoKeeps
  <2>2. OneHandler'
    BY <1>c, <2>1, SameHands
  <2>3. \A v \in Workers : Data(v)' = Data(v) /\ Entry(v)' = Entry(v)
    BY <1>c, <2>1 DEF Data, Entry
  <2> QED
    BY <2>1, <2>2, <2>3
<1>3. ASSUME NEW w \in Workers, Reject(w) \/ Duplicate(w) PROVE CInv'
  <2>1. pc[w] \in Busy /\ Goto(w, "ack") /\ "ack" \in Busy
        /\ UNCHANGED <<results, rows, deleted, fed, faults>>
    BY <1>3 DEF Reject, Duplicate, Busy
  <2>2. TypeOK'
    BY <1>a, <1>c, <2>1 DEF TypeOK
  <2>3. Accounted(Data(w))
    BY <1>3 DEF Reject, Duplicate, Conflicts, Accounted
  <2>4. AckInv'
    BY <1>c, <2>1, <2>3 DEF CInv, AckInv, Accounted
  <2>5. DetectInv' /\ DetectOnce'
    BY <1>c, <2>1 DEF CInv, DetectInv, DetectOnce, Conflicts
  <2>6. FedAtMostOnce'
    BY <2>1 DEF CInv, FedAtMostOnce
  <2> QED
    BY <1>c, <2>1, <2>2, <2>4, <2>5, <2>6 DEF CInv
<1>4. ASSUME NEW w \in Workers, Persist(w) PROVE CInv'
  <2>1. pc[w] \in Busy /\ Goto(w, "detect") /\ "detect" \in Busy
        /\ UNCHANGED <<results, deleted, fed, faults>>
        /\ rows' = rows \cup {Data(w)} /\ Data(w) \in Keys /\ ~Conflicts(Data(w))
    BY <1>4 DEF Persist, Busy
  <2>2. TypeOK'
    BY <1>a, <1>c, <2>1 DEF TypeOK
  <2>3. fed[Data(w)] = 0
    BY <1>a, <2>1 DEF CInv, FedAtMostOnce, TypeOK, Conflicts
  <2>4. DetectInv'
    BY <1>c, <2>1, <2>3 DEF CInv, DetectInv, Conflicts
  <2>5. DetectOnce'
    BY <1>c, <2>1 DEF CInv, DetectInv, DetectOnce
  <2>6. AckInv'
    BY <1>c, <2>1 DEF CInv, AckInv, Accounted
  <2>7. FedAtMostOnce'
    BY <2>1 DEF CInv, FedAtMostOnce
  <2> QED
    BY <1>c, <2>1, <2>2, <2>4, <2>5, <2>6, <2>7 DEF CInv
<1>5. ASSUME NEW w \in Workers, Detect(w) PROVE CInv'
  <2>1. pc[w] = "detect" /\ pc[w] \in Busy /\ Goto(w, "ack") /\ "ack" \in Busy
        /\ UNCHANGED <<results, rows, deleted, faults>>
        /\ fed' = [fed EXCEPT ![Data(w)] = @ + 1]
    BY <1>5 DEF Detect, Busy
  <2>2. Data(w) \in Keys /\ Conflicts(Data(w)) /\ fed[Data(w)] = 0
    BY <2>1 DEF CInv, DetectInv
  <2>3. /\ fed' \in [Keys -> Nat] /\ fed'[Data(w)] = 1
        /\ \A k \in Keys \ {Data(w)} : fed'[k] = fed[k]
    BY <1>a, <2>1, <2>2 DEF TypeOK
  <2>4. TypeOK'
    BY <1>a, <1>c, <2>1, <2>3 DEF TypeOK
  <2>5. DetectInv'
    <3> SUFFICES ASSUME NEW v \in Workers, pc'[v] = "detect"
                 PROVE  Data(v) \in Keys /\ Conflicts(Data(v)) /\ fed'[Data(v)] = 0
      BY <1>c, <2>1 DEF DetectInv, Conflicts
    <3>1. v # w /\ pc[v] = "detect"
      BY <1>c, <2>1
    <3>2. Data(v) \in Keys /\ Conflicts(Data(v)) /\ fed[Data(v)] = 0 /\ Data(v) # Data(w)
      BY <2>1, <3>1 DEF CInv, DetectInv, DetectOnce
    <3> QED
      BY <2>3, <3>2
  <2>6. DetectOnce'
    BY <1>c, <2>1 DEF CInv, DetectOnce
  <2>7. AckInv'
    BY <1>c, <2>1, <2>2 DEF CInv, AckInv, Accounted, Conflicts
  <2>8. FedAtMostOnce'
    BY <2>1, <2>2, <2>3 DEF CInv, FedAtMostOnce, Conflicts
  <2> QED
    BY <1>c, <2>1, <2>4, <2>5, <2>6, <2>7, <2>8 DEF CInv
<1>6. ASSUME NEW w \in Workers, DetectFailed(w) PROVE CInv'
  <2>1. pc[w] = "detect" /\ pc[w] \in Busy /\ Goto(w, "ack") /\ "ack" \in Busy
        /\ UNCHANGED <<results, rows, deleted, fed>> /\ Faulty
    BY <1>6 DEF DetectFailed, Busy
  <2>2. Accounted(Data(w))
    BY <2>1 DEF CInv, DetectInv, Conflicts, Accounted
  <2>3. TypeOK'
    BY <1>a, <1>b, <1>c, <2>1 DEF TypeOK
  <2>4. DetectInv' /\ DetectOnce'
    BY <1>c, <2>1 DEF CInv, DetectInv, DetectOnce, Conflicts
  <2>5. AckInv'
    BY <1>c, <2>1, <2>2 DEF CInv, AckInv, Accounted
  <2>6. FedAtMostOnce'
    BY <2>1 DEF CInv, FedAtMostOnce
  <2> QED
    BY <1>c, <2>1, <2>3, <2>4, <2>5, <2>6 DEF CInv
<1>7. ASSUME NEW w \in Workers, PersistFailed(w) PROVE CInv'
  <2>1. /\ pc[w] \in Busy /\ NextEntry(w) /\ Faulty
        /\ UNCHANGED <<results, deleted, fed>>
        /\ rows \subseteq rows' /\ rows' \subseteq rows \cup {Data(w)} /\ Data(w) \in Keys
    BY <1>7 DEF PersistFailed, Busy
  <2>2. TypeOK'
    BY <1>a, <1>b, <2>1, NextEntryKeeps DEF TypeOK
  <2>3. \A v \in Workers : Held(v)' \subseteq Held(v) \ {}
    BY <2>1, NextEntryKeeps DEF Held
  <2>4. OneHandler'
    BY <2>1, <2>3, LetGo DEF CInv
  <2>5. Ordered'
    BY <2>1, NextEntryKeeps
  <2>6. DetectInv' /\ DetectOnce' /\ AckInv' /\ FedAtMostOnce'
    BY <2>1, NextEntryKeeps, Frame DEF LogKept
  <2> QED
    BY <2>2, <2>4, <2>5, <2>6 DEF CInv
<1>8. ASSUME NEW w \in Workers, Ack(w) PROVE CInv'
  <2>1. /\ pc[w] \in Busy /\ NextEntry(w) /\ results' = XAck(results, Entry(w))
        /\ UNCHANGED <<rows, deleted, fed, faults>>
    BY <1>8 DEF Ack, Busy
  <2>2. /\ IsStream(results', Payload, Consumers)
        /\ LogKept
        /\ Pending(results') = Pending(results) \ {Entry(w)}
    BY <2>1, Acked
  <2>3. TypeOK'
    BY <1>a, <2>1, <2>2, NextEntryKeeps DEF TypeOK, Consumers
  <2>4. \A v \in Workers : Held(v)' \subseteq Held(v) \ {Entry(w)}
    <3>1. Held(w)' \subseteq Held(w) \ {Entry(w)}
      BY <2>1, NextEntryKeeps
    <3>2. ASSUME NEW v \in Workers, v # w PROVE Held(v)' = Held(v) /\ Entry(w) \notin Held(v)
      BY <2>1, <3>2, NextEntryKeeps, NotOthers DEF Held
    <3> QED
      BY <3>1, <3>2
  <2>5. OneHandler'
    BY <2>2, <2>4, LetGo DEF CInv
  <2>6. Ordered'
    BY <2>1, NextEntryKeeps
  <2>7. DetectInv' /\ DetectOnce' /\ AckInv' /\ FedAtMostOnce'
    BY <2>1, <2>2, NextEntryKeeps, Frame
  <2> QED
    BY <2>3, <2>5, <2>6, <2>7 DEF CInv
<1>9. ASSUME NEW w \in Workers, AckFailed(w) PROVE CInv'
  <2>1. /\ pc[w] \in Busy /\ Abandon(w, "read") /\ Faulty
        /\ results' \in {results, XAck(results, Entry(w))}
        /\ UNCHANGED <<rows, deleted, fed>>
    BY <1>9 DEF AckFailed, Busy
  <2>2. /\ IsStream(results', Payload, Consumers)
        /\ LogKept
        /\ Pending(results) \ {Entry(w)} \subseteq Pending(results')
    BY <1>a, <2>1, Acked DEF LogKept
  <2>3. TypeOK'
    BY <1>a, <1>b, <2>1, <2>2, AbandonKeeps DEF TypeOK, Consumers
  <2>4. \A v \in Workers : Held(v)' \subseteq Held(v) \ {Entry(w)}
    <3>1. Held(w)' = {}
      BY <2>1, AbandonKeeps
    <3>2. ASSUME NEW v \in Workers, v # w PROVE Held(v)' = Held(v) /\ Entry(w) \notin Held(v)
      BY <2>1, <3>2, AbandonKeeps, NotOthers DEF Held
    <3> QED
      BY <3>1, <3>2
  <2>5. OneHandler'
    BY <2>2, <2>4, LetGo DEF CInv
  <2>6. Ordered'
    BY <2>1, AbandonKeeps
  <2>7. DetectInv' /\ DetectOnce' /\ AckInv' /\ FedAtMostOnce'
    BY <2>1, <2>2, AbandonKeeps, Frame
  <2> QED
    BY <2>3, <2>5, <2>6, <2>7 DEF CInv
<1>10. ASSUME NEW w \in Workers, Stop(w) PROVE CInv'
  <2>1. Abandon(w, "down") /\ Faulty /\ UNCHANGED <<results, rows, deleted, fed>>
    BY <1>10 DEF Stop
  <2>2. TypeOK'
    BY <1>a, <1>b, <2>1, AbandonKeeps DEF TypeOK
  <2>3. \A v \in Workers : Held(v)' \subseteq Held(v) \ {}
    BY <2>1, AbandonKeeps DEF Held
  <2>4. OneHandler'
    BY <2>1, <2>3, LetGo DEF CInv
  <2>5. Ordered'
    BY <2>1, AbandonKeeps
  <2>6. DetectInv' /\ DetectOnce' /\ AckInv' /\ FedAtMostOnce'
    BY <2>1, AbandonKeeps, Frame DEF LogKept
  <2> QED
    BY <2>2, <2>4, <2>5, <2>6 DEF CInv
<1>11. ASSUME NEW w \in Workers, Start(w) PROVE CInv'
  <2>1. /\ pc[w] = "down" /\ pc' = [pc EXCEPT ![w] = "read"] /\ batch' = batch
        /\ UNCHANGED <<results, rows, deleted, fed, faults>>
    BY <1>11 DEF Start, Goto
  <2>2. TypeOK'
    BY <1>a, <2>1 DEF TypeOK, Labels
  <2>3. OneHandler' /\ Ordered'
    BY <2>1 DEF CInv, OneHandler, Ordered, Held, Pending
  <2>4. \A v \in Workers : pc'[v] \in {"detect", "ack"} => pc'[v] = pc[v]
    BY <1>a, <2>1 DEF TypeOK
  <2>5. DetectInv' /\ DetectOnce' /\ AckInv' /\ FedAtMostOnce'
    BY <2>1, <2>4, Frame DEF LogKept
  <2> QED
    BY <2>2, <2>3, <2>5 DEF CInv
<1>12. ASSUME NEW p \in Payload, Report(p) PROVE CInv'
  <2>1. /\ results' \in XAdd(results, p, ResultsMaxLen)
        /\ UNCHANGED <<pc, batch, rows, deleted, fed, faults>>
    BY <1>12 DEF Report
  <2>2. /\ IsStream(results', Payload, Consumers)
        /\ LogKept
        /\ Pending(results') = Pending(results)
    BY <1>a, <2>1, ConsumerAssumption, XAddKeeps DEF LogKept, Pending
  <2>3. TypeOK'
    BY <1>a, <2>1, <2>2 DEF TypeOK, Consumers
  <2>4. OneHandler' /\ Ordered'
    BY <2>1, <2>2 DEF CInv, OneHandler, Ordered, Held, Pending
  <2>5. DetectInv' /\ DetectOnce' /\ AckInv' /\ FedAtMostOnce'
    BY <2>1, <2>2, Frame
  <2> QED
    BY <2>3, <2>4, <2>5 DEF CInv
<1>13. ASSUME NEW s \in Services, DeleteService(s) PROVE CInv'
  <2>1. /\ deleted' = deleted \cup {s} /\ rows' = {k \in rows : SvcOf[k] # s}
        /\ UNCHANGED <<results, pc, batch, fed, faults>>
    BY <1>13 DEF DeleteService
  <2>2. TypeOK'
    BY <1>a, <2>1 DEF TypeOK
  <2>3. OneHandler' /\ Ordered'
    BY <2>1 DEF CInv, OneHandler, Ordered, Held, Pending
  <2>4. \A k : k \in rows \/ SvcOf[k] \in deleted => k \in rows' \/ SvcOf[k] \in deleted'
    BY <2>1
  <2>5. \A v \in Workers : Data(v)' = Data(v)
    BY <2>1 DEF Data, Entry
  <2>6. DetectInv' /\ DetectOnce'
    BY <2>1, <2>4, <2>5 DEF CInv, DetectInv, DetectOnce, Conflicts
  <2>7. AckInv'
    BY <2>1, <2>4, <2>5 DEF CInv, AckInv, Accounted
  <2>8. FedAtMostOnce'
    BY <2>1, <2>4 DEF CInv, FedAtMostOnce
  <2> QED
    BY <2>2, <2>3, <2>6, <2>7, <2>8 DEF CInv
<1>14. CASE UNCHANGED vars
  <2>1. TypeOK'
    BY <1>14, <1>a DEF vars, TypeOK
  <2>2. OneHandler' /\ Ordered'
    BY <1>14, SameHands DEF vars, CInv, Ordered
  <2>3. DetectInv' /\ DetectOnce' /\ AckInv' /\ FedAtMostOnce'
    BY <1>14, Frame DEF vars, LogKept
  <2> QED
    BY <2>1, <2>2, <2>3 DEF CInv
<1> QED
  BY <1>1, <1>2, <1>3, <1>4, <1>5, <1>6, <1>7, <1>8, <1>9, <1>10, <1>11, <1>12,
     <1>13, <1>14 DEF Next, Step, Fault

\* The inductive invariant of the consumer.
THEOREM ConsumerInvariant == Spec => []CInv
<1>1. Init => CInv
  BY CInvInit
<1>2. CInv /\ [Next]_vars => CInv'
  BY CInvNext
<1> QED
  BY <1>1, <1>2, PTL DEF Spec

\* Whatever the number of workers, which all use one consumer name, an entry
\* is handled by one of them, and is pending as long as it is in hand.
THEOREM OneHandlerHolds == Spec => []OneHandler
<1>1. CInv => OneHandler
  BY DEF CInv
<1> QED
  BY <1>1, ConsumerInvariant, PTL

\* A result reaches the detector at most once, and only when it is stored,
\* however often it is reported and whatever fails.
THEOREM FedOnce == Spec => []FedAtMostOnce
<1>1. CInv => FedAtMostOnce
  BY DEF CInv
<1> QED
  BY <1>1, ConsumerInvariant, PTL

-----------------------------------------------------------------------------
\* Acknowledgements

\* Only Ack and AckFailed take an entry off the pending list, and they hold
\* one that is accounted for.
LEMMA AckStep ==
  CInv /\ [Next]_vars =>
    \A i \in Pending(results) \ Pending(results') : Accounted(results.log[i])'
<1> SUFFICES ASSUME CInv, [Next]_vars, NEW i \in Pending(results) \ Pending(results')
             PROVE  Accounted(results.log[i])'
  OBVIOUS
<1>a. IsStream(results, Payload, Consumers)
  BY DEF CInv, TypeOK, Consumers
<1>1. ASSUME NEW w \in Workers, pc[w] = "ack", UNCHANGED <<rows, deleted>>,
             results' = XAck(results, Entry(w))
      PROVE  Accounted(results.log[i])'
  <2>1. Pending(results') = Pending(results) \ {Entry(w)} /\ LogKept
    BY <1>1, Acked
  <2>2. i = Entry(w)
    BY <2>1
  <2>3. Accounted(Data(w)) /\ Entry(w) \in Ids(results)
    BY <1>1, HeldInLog DEF CInv, AckInv
  <2> QED
    BY <1>1, <2>1, <2>2, <2>3 DEF Accounted, Data, LogKept
<1>2. ASSUME NEW w \in Workers, Read(w) \/ ReadLost(w) PROVE FALSE
  <2>1. Pending(results') = Pending(results) \cup NewIds(results, BatchSize)
    BY <1>2, Delivered DEF Read, ReadLost
  <2> QED
    BY <2>1
<1>3. ASSUME results' = results PROVE FALSE
  BY <1>3 DEF Pending
<1>4. ASSUME NEW p \in Payload, Report(p) PROVE FALSE
  <2>1. results'.pel = results.pel
    BY <1>4, <1>a, ConsumerAssumption, XAddKeeps DEF Report
  <2> QED
    BY <2>1 DEF Pending
<1>5. ASSUME NEW w \in Workers, Ack(w) PROVE Accounted(results.log[i])'
  BY <1>1, <1>5 DEF Ack
<1>6. ASSUME NEW w \in Workers, AckFailed(w) PROVE Accounted(results.log[i])'
  BY <1>1, <1>3, <1>6 DEF AckFailed
<1>7. ASSUME NEW w \in Workers,
             \/ Reject(w) \/ Persist(w) \/ Duplicate(w) \/ Detect(w) \/ Start(w)
             \/ PersistFailed(w) \/ DetectFailed(w) \/ Stop(w)
      PROVE  FALSE
  BY <1>3, <1>7 DEF Reject, Persist, Duplicate, Detect, Start, PersistFailed, DetectFailed, Stop
<1>8. ASSUME NEW s \in Services, DeleteService(s) PROVE FALSE
  BY <1>3, <1>8 DEF DeleteService
<1>9. CASE UNCHANGED vars
  BY <1>3, <1>9 DEF vars
<1> QED
  BY <1>2, <1>4, <1>5, <1>6, <1>7, <1>8, <1>9 DEF Next, Step, Fault

\* An acknowledgement never loses a result: what leaves the pending list is
\* junk, stored, or of a deleted service.
THEOREM AcksLoseNothing == Spec => AckMeansAccounted
<1>1. CInv /\ [Next]_vars =>
        [\A i \in Pending(results) \ Pending(results') : Accounted(results.log[i])']_vars
  BY AckStep
<1> QED
  BY <1>1, ConsumerInvariant, PTL DEF Spec, AckMeansAccounted

-----------------------------------------------------------------------------
\* Refinement

Phase == [k \in Keys |-> PhaseOf(k)]

\* At the start every key is absent from the ledger.
LEMMA LedgerStarts == Init => Ledger!LedgerInit
BY DEF Init, Ledger!LedgerInit, PhaseOf

\* A step that changes none of the three leaves the ledger alone.
LEMMA LedgerStutters ==
  ASSUME UNCHANGED <<rows, deleted, fed>>
  PROVE  UNCHANGED Phase
BY DEF Phase, PhaseOf

\* Storing a row that does not conflict moves its key from absent to stored.
LEMMA LedgerStores ==
  ASSUME CInv, NEW k \in Keys, ~Conflicts(k), rows' = rows \cup {k},
         UNCHANGED <<deleted, fed>>
  PROVE  Ledger!Advance(k, "absent", "stored")
<1>1. fed[k] = 0
  BY DEF CInv, FedAtMostOnce, TypeOK, Conflicts
<1>2. PhaseOf(k) = "absent"
  BY <1>1 DEF PhaseOf, Conflicts
<1>3. PhaseOf(k)' = "stored"
  BY <1>1 DEF PhaseOf, Conflicts
<1>4. \A j \in Keys \ {k} : PhaseOf(j)' = PhaseOf(j)
  BY DEF PhaseOf
<1> QED
  BY <1>2, <1>3, <1>4 DEF Ledger!Advance

\* Every step of the consumer is a step of the ledger or leaves it alone.
LEMMA LedgerStep == CInv /\ [Next]_vars => [Ledger!LedgerNext]_Phase
<1> SUFFICES ASSUME CInv, [Next]_vars PROVE [Ledger!LedgerNext]_Phase
  OBVIOUS
<1>1. ASSUME NEW w \in Workers, Persist(w) PROVE Ledger!LedgerNext
  BY <1>1, LedgerStores DEF Persist, Ledger!LedgerNext
<1>2. ASSUME NEW w \in Workers, PersistFailed(w) PROVE [Ledger!LedgerNext]_Phase
  BY <1>2, LedgerStores, LedgerStutters DEF PersistFailed, Ledger!LedgerNext
<1>3. ASSUME NEW w \in Workers, Detect(w) PROVE [Ledger!LedgerNext]_Phase
  <2>1. PICK k \in Keys :
          /\ Conflicts(k) /\ fed[k] = 0 /\ fed \in [Keys -> Nat]
          /\ fed' = [fed EXCEPT ![k] = @ + 1] /\ UNCHANGED <<rows, deleted>>
    BY <1>3 DEF Detect, CInv, DetectInv, TypeOK
  <2>2. fed'[k] = 1 /\ \A j \in Keys \ {k} : fed'[j] = fed[j]
    BY <2>1
  <2>3. \A j \in Keys \ {k} : PhaseOf(j)' = PhaseOf(j)
    BY <2>1, <2>2 DEF PhaseOf
  <2>4. CASE SvcOf[k] \in deleted
    <3>1. PhaseOf(k)' = PhaseOf(k)
      BY <2>1, <2>4 DEF PhaseOf
    <3> QED
      BY <2>3, <3>1 DEF Phase
  <2>5. CASE SvcOf[k] \notin deleted
    <3>1. PhaseOf(k) = "stored" /\ PhaseOf(k)' = "fed"
      BY <2>1, <2>2, <2>5 DEF PhaseOf, Conflicts
    <3>2. Ledger!Advance(k, "stored", "fed")
      BY <2>1, <2>3, <3>1 DEF Ledger!Advance
    <3> QED
      BY <2>1, <3>2 DEF Ledger!LedgerNext
  <2> QED
    BY <2>4, <2>5
<1>4. ASSUME NEW s \in Services, DeleteService(s) PROVE Ledger!LedgerNext
  <2> DEFINE ks == {k \in Keys : SvcOf[k] = s}
  <2>1. \A k \in Keys : PhaseOf(k)' = IF k \in ks THEN "gone" ELSE PhaseOf(k)
    BY <1>4 DEF DeleteService, PhaseOf
  <2>2. Ledger!Forget(ks)
    BY <2>1 DEF Ledger!Forget
  <2> QED
    BY <2>2 DEF Ledger!LedgerNext
<1>5. ASSUME UNCHANGED <<rows, deleted, fed>> PROVE UNCHANGED Phase
  BY <1>5, LedgerStutters
<1>6. ASSUME NEW w \in Workers,
             \/ Read(w) \/ ReadLost(w) \/ Reject(w) \/ Duplicate(w) \/ DetectFailed(w)
             \/ Ack(w) \/ AckFailed(w) \/ Stop(w) \/ Start(w)
      PROVE  UNCHANGED Phase
  BY <1>5, <1>6 DEF Read, ReadLost, Reject, Duplicate, DetectFailed, Ack, AckFailed, Stop, Start
<1>7. ASSUME NEW p \in Payload, Report(p) PROVE UNCHANGED Phase
  BY <1>5, <1>7 DEF Report
<1>8. CASE UNCHANGED vars
  BY <1>5, <1>8 DEF vars
<1> QED
  BY <1>1, <1>2, <1>3, <1>4, <1>6, <1>7, <1>8 DEF Next, Step, Fault

\* The consumer implements the ledger: each result is stored at most once and
\* fed to the detector at most once, after it is stored.
THEOREM RefinesLedger == Spec => ImplementsLedger
<1>1. CInv /\ [Next]_vars => [Ledger!LedgerNext]_Phase
  BY LedgerStep
<1> QED
  BY <1>1, LedgerStarts, ConsumerInvariant, PTL DEF Spec, ImplementsLedger, Ledger!LedgerSpec, Phase

-----------------------------------------------------------------------------
\* Rows that wait for the detector

\* The rows whose evaluation was missed are no more than the failures.
FedInv == IsFiniteSet(Missed) /\ Cardinality(Missed) <= faults

\* A set that grows by the elements of another has at most so many more.
LEMMA GrowsBy ==
  ASSUME NEW S, IsFiniteSet(S), NEW X, IsFiniteSet(X), NEW T, T \subseteq S \cup X
  PROVE  /\ IsFiniteSet(T)
         /\ Cardinality(T) \in Nat /\ Cardinality(S) \in Nat /\ Cardinality(X) \in Nat
         /\ Cardinality(T) <= Cardinality(S) + Cardinality(X)
<1>1. /\ IsFiniteSet(S \cup X) /\ IsFiniteSet(S \cap X)
      /\ Cardinality(S \cup X) = Cardinality(S) + Cardinality(X) - Cardinality(S \cap X)
  BY FS_Union, FS_Intersection
<1>2. IsFiniteSet(T) /\ Cardinality(T) <= Cardinality(S \cup X)
  BY <1>1, FS_Subset
<1>3. /\ Cardinality(T) \in Nat /\ Cardinality(S) \in Nat /\ Cardinality(X) \in Nat
      /\ Cardinality(S \cap X) \in Nat
  BY <1>1, <1>2, FS_CardinalityType
<1> QED
  BY <1>1, <1>2, <1>3

\* A worker about to call the detector still holds the same result.
LEMMA DetectStays ==
  ASSUME CInv, LogKept, NEW w \in Workers, pc[w] = "detect", pc'[w] = "detect",
         batch'[w] = batch[w]
  PROVE  Data(w)' = Data(w)
<1>1. Entry(w)' = Entry(w) /\ Entry(w) \in Ids(results)
  BY HeldInLog DEF Entry, CInv
<1> QED
  BY <1>1 DEF Data, LogKept

\* A step that calls no detector misses the rows it adds and those of the
\* workers it takes away from "detect", and no other.
LEMMA MissedBy ==
  ASSUME CInv, LogKept, NEW X, rows' \subseteq rows \cup X, fed' = fed,
         \A w \in Workers : pc[w] = "detect" =>
           Data(w) \in X \/ (pc'[w] = "detect" /\ batch'[w] = batch[w])
  PROVE  Missed' \subseteq Missed \cup X
<1> SUFFICES ASSUME NEW k \in Missed', k \notin X PROVE k \in Missed
  OBVIOUS
<1>1. k \in rows /\ fed[k] = 0 /\ \A w \in Workers : pc'[w] = "detect" => Data(w)' # k
  BY DEF Missed
<1>2. ASSUME NEW w \in Workers, pc[w] = "detect" PROVE Data(w) # k
  BY <1>1, <1>2, DetectStays
<1> QED
  BY <1>1, <1>2 DEF Missed

\* Without a failure nothing may be missed; with one, one row.
LEMMA FedFrame ==
  ASSUME CInv, FedInv, faults' = faults, Missed' \subseteq Missed
  PROVE  FedInv'
<1>1. IsFiniteSet(Missed') /\ Cardinality(Missed') <= Cardinality(Missed)
  BY FS_Subset DEF FedInv
<1>2. Cardinality(Missed) \in Nat /\ Cardinality(Missed') \in Nat /\ faults \in Nat
  BY <1>1, FS_CardinalityType, FaultsAssumption DEF FedInv, CInv, TypeOK
<1> QED
  BY <1>1, <1>2 DEF FedInv

LEMMA FedFault ==
  ASSUME CInv, FedInv, faults' = faults + 1, NEW x, Missed' \subseteq Missed \cup {x}
  PROVE  FedInv'
<1>1. IsFiniteSet({x}) /\ Cardinality({x}) = 1
  BY FS_Singleton
<1>2. /\ IsFiniteSet(Missed') /\ Cardinality(Missed') \in Nat /\ Cardinality(Missed) \in Nat
      /\ Cardinality(Missed') <= Cardinality(Missed) + 1
  BY <1>1, GrowsBy DEF FedInv
<1>3. faults \in Nat
  BY FaultsAssumption DEF CInv, TypeOK
<1> QED
  BY <1>2, <1>3 DEF FedInv

LEMMA FedStep == CInv /\ FedInv /\ [Next]_vars => FedInv'
<1> SUFFICES ASSUME CInv, FedInv, [Next]_vars PROVE FedInv'
  OBVIOUS
<1>1. faults \in Nat /\ pc \in [Workers -> Labels] /\ fed \in [Keys -> Nat]
      /\ rows \subseteq Keys /\ IsStream(results, Payload, Consumers)
      /\ batch \in [Workers -> Seq(Nat \ {0})]
  BY FaultsAssumption DEF CInv, TypeOK, Consumers
<1>2. ASSUME LogKept, rows' \subseteq rows, fed' = fed,
             \A w \in Workers : pc[w] = "detect" => pc'[w] = "detect" /\ batch'[w] = batch[w]
      PROVE  Missed' \subseteq Missed
  <2>1. Missed' \subseteq Missed \cup {}
    BY <1>2, MissedBy
  <2> QED
    BY <2>1
<1>3. ASSUME NEW w \in Workers, Read(w) PROVE FedInv'
  <2>1. LogKept
    BY <1>3, Delivered DEF Read
  <2> QED
    BY <1>1, <1>2, <1>3, <2>1, FedFrame DEF Read
<1>4. ASSUME NEW w \in Workers, Reject(w) \/ Duplicate(w) \/ Start(w) PROVE FedInv'
  BY <1>1, <1>2, <1>4, FedFrame DEF Reject, Duplicate, Start, Goto, LogKept
<1>5. ASSUME NEW w \in Workers, Persist(w) PROVE FedInv'
  <2>1. /\ UNCHANGED <<results, batch, fed, faults>> /\ rows' = rows \cup {Data(w)}
        /\ pc[w] = "handle" /\ pc'[w] = "detect"
        /\ \A v \in Workers \ {w} : pc'[v] = pc[v]
    BY <1>1, <1>5 DEF Persist, Goto
  <2>2. \A v \in Workers : Data(v)' = Data(v)
    BY <2>1 DEF Data, Entry
  <2>3. Missed' \subseteq Missed
    BY <2>1, <2>2 DEF Missed
  <2> QED
    BY <2>1, <2>3, FedFrame
<1>6. ASSUME NEW w \in Workers, Detect(w) PROVE FedInv'
  <2>1. /\ UNCHANGED <<results, batch, rows, faults>>
        /\ pc[w] = "detect"
        /\ \A v \in Workers \ {w} : pc'[v] = pc[v]
        /\ Data(w) \in Keys /\ fed[Data(w)] = 0
        /\ fed' = [fed EXCEPT ![Data(w)] = @ + 1]
    BY <1>1, <1>6 DEF Detect, Goto, CInv, DetectInv
  <2>2. fed'[Data(w)] = 1 /\ \A k \in Keys \ {Data(w)} : fed'[k] = fed[k]
    BY <1>1, <2>1
  <2>3. \A v \in Workers : Data(v)' = Data(v)
    BY <2>1 DEF Data, Entry
  <2>4. Missed' \subseteq Missed
    BY <1>1, <2>1, <2>2, <2>3 DEF Missed
  <2> QED
    BY <2>1, <2>4, FedFrame
<1>7. ASSUME NEW w \in Workers, Ack(w) PROVE FedInv'
  <2>1. LogKept
    BY <1>7, Acked DEF Ack
  <2>2. /\ \A v \in Workers \ {w} : pc'[v] = pc[v] /\ batch'[v] = batch[v]
        /\ pc[w] = "ack" /\ UNCHANGED <<rows, fed, faults>>
    BY <1>1, <1>7 DEF Ack, NextEntry
  <2> QED
    BY <1>2, <2>1, <2>2, FedFrame
<1>8. ASSUME NEW p \in Payload, Report(p) PROVE FedInv'
  <2>1. LogKept
    BY <1>1, <1>8, ConsumerAssumption, XAddKeeps DEF Report, LogKept
  <2> QED
    BY <1>2, <1>8, <2>1, FedFrame DEF Report
<1>9. ASSUME NEW s \in Services, DeleteService(s) PROVE FedInv'
  BY <1>2, <1>9, FedFrame DEF DeleteService, LogKept
<1>10. ASSUME NEW w \in Workers, Fault(w) PROVE FedInv'
  <2> DEFINE x == Data(w)
  <2>1. faults' = faults + 1 /\ fed' = fed
    BY <1>10 DEF Fault, Faulty, ReadLost, PersistFailed, DetectFailed, AckFailed, Stop
  <2>2. LogKept
    <3>1. CASE ReadLost(w)
      BY <3>1, Delivered DEF ReadLost
    <3>2. CASE AckFailed(w)
      BY <3>2, Acked DEF AckFailed, LogKept
    <3>3. CASE PersistFailed(w) \/ DetectFailed(w) \/ Stop(w)
      BY <3>3 DEF PersistFailed, DetectFailed, Stop, LogKept
    <3> QED
      BY <1>10, <3>1, <3>2, <3>3 DEF Fault
  <2>3. rows' \subseteq rows \cup {x}
    BY <1>10 DEF Fault, ReadLost, PersistFailed, DetectFailed, AckFailed, Stop
  <2>4. \A v \in Workers \ {w} : pc'[v] = pc[v] /\ batch'[v] = batch[v]
    BY <1>1, <1>10
       DEF Fault, ReadLost, PersistFailed, DetectFailed, AckFailed, Stop, NextEntry, Abandon, Goto
  <2> HIDE DEF x
  <2>5. Missed' \subseteq Missed \cup {x}
    BY <2>1, <2>2, <2>3, <2>4, MissedBy DEF x
  <2> QED
    BY <2>1, <2>5, FedFault
<1>11. CASE UNCHANGED vars
  BY <1>2, <1>11, FedFrame DEF vars, LogKept
<1> QED
  BY <1>3, <1>4, <1>5, <1>6, <1>7, <1>8, <1>9, <1>10, <1>11 DEF Next, Step

\* Types: the stream is well formed, and a worker has a batch exactly while it
\* handles one.
THEOREM ConsumerTypes == Spec => []TypeOK
<1>1. CInv => TypeOK
  BY DEF CInv
<1> QED
  BY <1>1, ConsumerInvariant, PTL

\* A failure costs the evaluation of one stored row at most, and nothing else
\* does: in particular, the acknowledgement of a duplicate never swallows the
\* evaluation of the row it duplicates.
THEOREM MissedRowsBounded == Spec => []StoredIsFed
<1>1. Init => FedInv
  <2> SUFFICES ASSUME Init PROVE FedInv
    OBVIOUS
  <2>1. Missed = {} /\ faults = 0
    BY DEF Init, Missed
  <2> QED
    BY <2>1, FS_EmptySet DEF FedInv
<1>2. FedInv => StoredIsFed
  BY DEF FedInv, StoredIsFed
<1> QED
  BY <1>1, <1>2, FedStep, ConsumerInvariant, PTL DEF Spec

-----------------------------------------------------------------------------
\* Nothing is lost while nothing fails

\* An entry of the results stream has still to be read, or is in a worker's
\* hands, or was acknowledged with its row stored (or makes no sense, or its
\* service is gone), or was trimmed before anyone read it.  Only a failure
\* leaves an entry pending in nobody's hands (consumer.py:29-109).
NoResultIsLost ==
  faults = 0 => \A i \in Ids(results) :
    \/ i > results.last
    \/ \E w \in Workers : i \in Held(w)
    \/ i \notin Pending(results) /\ (Accounted(results.log[i]) \/ i < results.first)

Settled(i) == i \notin Pending(results) /\ (Accounted(results.log[i]) \/ i < results.first)

InHand(i) == \E w \in Workers : i \in Held(w)

\* The same of what was delivered.
KeptInv == faults = 0 => \A i \in 1..results.last : InHand(i) \/ Settled(i)

\* The reply of a read holds everything that was delivered.
LEMMA BatchIsAll ==
  ASSUME NEW P, NEW C, NEW st, IsStream(st, P, C), NEW count \in Nat \ {0},
         NEW i \in NewIds(st, count)
  PROVE  \E k \in DOMAIN Batch(st, count) : Batch(st, count)[k] = i
<1> DEFINE lo == NewFrom(st)
           hi == NewUpTo(st, count)
<1>1. st.last \in Nat /\ st.first \in Nat \ {0} /\ Len(st.log) \in Nat
  BY DEF IsStream
<1>2. lo \in Nat \ {0} /\ hi \in Nat
  BY <1>1 DEF NewFrom, NewUpTo
<1>3. i \in lo..hi /\ Batch(st, count) = [k \in 1..(hi + 1 - lo) |-> lo + k - 1]
  BY DEF NewIds, Batch
<1> HIDE DEF lo, hi
<1>4. i + 1 - lo \in 1..(hi + 1 - lo) /\ lo + (i + 1 - lo) - 1 = i
  BY <1>2, <1>3
<1> QED
  BY <1>3, <1>4

\* What is accounted for stays so.
LEMMA AccountsStay ==
  ASSUME CInv, [Next]_vars, NEW p \in Payload, Accounted(p)
  PROVE  Accounted(p)'
<1>1. CASE rows \subseteq rows' /\ deleted \subseteq deleted'
  BY <1>1 DEF Accounted
<1>2. ASSUME NEW s \in Services, DeleteService(s) PROVE Accounted(p)'
  BY <1>2 DEF DeleteService, Accounted
<1> QED
  BY <1>1, <1>2 DEF Next, Step, Fault, Read, ReadLost, Reject, Persist, Duplicate, Detect, Ack,
     Start, PersistFailed, DetectFailed, AckFailed, Stop, Report, vars

\* What the steps without a failure have in common.
LEMMA KeptStep ==
  ASSUME CInv, KeptInv, [Next]_vars, faults = 0, LogKept, results'.first >= results.first,
         results'.first \in Int, results'.last \in Int,
         \A i \in 1..results.last : InHand(i) => InHand(i)' \/ Settled(i)',
         \A i \in 1..results.last : i \notin Pending(results) => i \notin Pending(results'),
         \A i \in 1..results'.last : i <= results.last \/ InHand(i)' \/ Settled(i)'
  PROVE  KeptInv'
<1> SUFFICES ASSUME NEW i \in 1..results'.last PROVE InHand(i)' \/ Settled(i)'
  BY DEF KeptInv
<1>1. /\ results.first \in Int /\ results.last \in 0..Len(results.log)
      /\ results.log \in Seq(Payload) /\ Len(results.log) \in Nat
  BY DEF CInv, TypeOK, IsStream
<1>2. CASE i <= results.last
  <2>1. i \in 1..results.last /\ i \in Ids(results) /\ results.log[i] \in Payload
    BY <1>1, <1>2 DEF Ids
  <2>2. ASSUME Settled(i) PROVE Settled(i)'
    <3>1. PICK p \in Payload : p = results.log[i] /\ p = results'.log[i]
      BY <2>1 DEF LogKept
    <3>2. Accounted(p) => Accounted(p)'
      BY AccountsStay
    <3>3. i < results.first => i < results'.first
      BY <1>1, <2>1
    <3>4. i \notin Pending(results)'
      BY <2>1, <2>2 DEF Settled, Pending
    <3> QED
      BY <2>2, <3>1, <3>2, <3>3, <3>4 DEF Settled, Accounted
  <2> QED
    BY <2>1, <2>2 DEF KeptInv
<1>3. CASE ~(i <= results.last)
  BY <1>3
<1> QED
  BY <1>2, <1>3

LEMMA KeptNext == CInv /\ KeptInv /\ [Next]_vars => KeptInv'
<1> SUFFICES ASSUME CInv, KeptInv, [Next]_vars, faults' = 0 PROVE KeptInv'
  BY DEF KeptInv
<1>a. /\ faults \in Nat /\ pc \in [Workers -> Labels] /\ batch \in [Workers -> Seq(Nat \ {0})]
      /\ IsStream(results, Payload, Consumers)
  BY FaultsAssumption DEF CInv, TypeOK, Consumers
<1>i. /\ results.first \in Int /\ results.last \in Int /\ results.last >= 0
      /\ 1..results.last \subseteq Ids(results)
  <2>1. results.first \in 1..Len(results.log) + 1 /\ results.last \in 0..Len(results.log)
        /\ Len(results.log) \in Nat
    BY <1>a DEF IsStream
  <2> QED
    BY <2>1 DEF Ids
<1>f. \A w \in Workers : ~Fault(w)
  BY <1>a DEF Faulty, Fault, ReadLost, PersistFailed, DetectFailed, AckFailed, Stop
<1>0. CASE UNCHANGED <<results, batch, faults>>
  <2>1. \A i : InHand(i) => InHand(i)'
    BY <1>0 DEF InHand, Held
  <2> QED
    BY <1>0, <1>i, <2>1, KeptStep DEF LogKept
<1>1. ASSUME NEW w \in Workers, Read(w) PROVE KeptInv'
  <2> DEFINE new == NewIds(results, BatchSize)
  <2>1. /\ results'.log = results.log /\ results'.first = results.first
        /\ results'.last = NewUpTo(results, BatchSize)
        /\ batch'[w] = Batch(results, BatchSize)
        /\ \A v \in Workers \ {w} : batch'[v] = batch[v]
        /\ pc[w] = "read" /\ faults' = faults
    BY <1>a, <1>1 DEF Read, XReadGroup
  <2>2. IsStream(results', Payload, Consumers) /\ Pending(results') = Pending(results) \cup new
        /\ \A i \in new : i > results.last
    <3>1. CONSUMER_NAME \in Consumers
      BY DEF Consumers
    <3> QED
      BY <1>a, <1>1, <3>1, XReadGroupKeeps, ConsumerAssumption DEF Read
  <2>3. results'.last \in Int
    BY <2>2 DEF IsStream
  <2>4. ASSUME NEW i \in new PROVE InHand(i)'
    <3>1. i \in Held(w)'
      BY <1>a, <2>1, BatchIsAll, ConsumerAssumption DEF Held
    <3> QED
      BY <3>1 DEF InHand
  <2>5. ASSUME NEW i, InHand(i) PROVE InHand(i)'
    <3>1. Held(w) = {}
      BY <2>1 DEF CInv, TypeOK, Held
    <3>2. \A v \in Workers \ {w} : Held(v)' = Held(v)
      BY <2>1 DEF Held
    <3> QED
      BY <2>5, <3>1, <3>2 DEF InHand
  <2>6. ASSUME NEW i \in 1..results'.last
        PROVE  i <= results.last \/ InHand(i)' \/ Settled(i)'
    <3>1. i <= results.last \/ i < results.first \/ i \in new
      BY <1>i, <2>1, <2>3 DEF NewIds, NewFrom
    <3> HIDE DEF new
    <3>2. CASE i < results.first /\ ~(i <= results.last) /\ i \notin new
      <4>1. i \notin Pending(results)
        BY <1>a, <1>i, <3>2 DEF IsStream
      <4> QED
        BY <2>1, <2>2, <3>2, <4>1 DEF Settled, Pending
    <3> QED
      BY <2>4, <3>1, <3>2
  <2> HIDE DEF new
  <2>7. \A i \in 1..results.last : i \notin Pending(results) => i \notin Pending(results')
    BY <1>i, <2>2
  <2> QED
    BY <1>i, <2>1, <2>3, <2>5, <2>6, <2>7, KeptStep DEF LogKept
<1>2. ASSUME NEW w \in Workers, Ack(w) PROVE KeptInv'
  <2>1. /\ results'.log = results.log /\ results'.first = results.first
        /\ results'.last = results.last
        /\ Pending(results') = Pending(results) \ {Entry(w)}
        /\ faults' = faults /\ UNCHANGED <<rows, deleted>> /\ pc[w] = "ack"
    BY <1>a, <1>2, XAckKeeps DEF Ack
  <2>2. batch'[w] = Tail(batch[w]) /\ \A v \in Workers \ {w} : batch'[v] = batch[v]
    BY <1>a, <1>2 DEF Ack, NextEntry
  <2>3. /\ batch[w] \in Seq(Nat \ {0}) /\ batch[w] # <<>> /\ Entry(w) = batch[w][1]
        /\ Accounted(Data(w))
    BY <2>1, HeadHeld DEF CInv, AckInv
  <2>4. ASSUME NEW i \in Held(w), i # Entry(w) PROVE i \in Held(w)'
    BY <1>2, <2>1, <2>4, RestInHand DEF Ack, Busy
  <2>5. \A v \in Workers \ {w} : Held(v)' = Held(v)
    BY <2>2 DEF Held
  <2>6. ASSUME NEW i \in 1..results.last, InHand(i) PROVE InHand(i)' \/ Settled(i)'
    <3>1. CASE i = Entry(w)
      BY <2>1, <2>3, <3>1 DEF Settled, Data, Accounted, Pending
    <3>2. CASE i # Entry(w)
      BY <2>4, <2>5, <2>6, <3>2 DEF InHand
    <3> QED
      BY <3>1, <3>2
  <2> QED
    BY <1>i, <2>1, <2>6, KeptStep DEF LogKept
<1>3. ASSUME NEW p \in Payload, Report(p) PROVE KeptInv'
  <2>1. /\ results'.last = results.last /\ results'.first >= results.first /\ LogKept
        /\ Pending(results') = Pending(results) /\ IsStream(results', Payload, Consumers)
    BY <1>a, <1>3, XAddKeeps, ConsumerAssumption DEF Report, LogKept, Pending
  <2>2. results'.first \in Int
    BY <2>1 DEF IsStream
  <2>3. \A i : InHand(i) => InHand(i)'
    BY <1>3 DEF Report, InHand, Held
  <2>4. faults' = faults
    BY <1>3 DEF Report
  <2> QED
    BY <1>i, <2>1, <2>2, <2>3, <2>4, KeptStep
<1> QED
  BY <1>f, <1>0, <1>1, <1>2, <1>3
     DEF Next, Step, Reject, Persist, Duplicate, Detect, Start, Goto, DeleteService, vars

\* As long as nothing fails no result is lost, for any number of workers and
\* entries, through duplicates, trimming and deletions.
THEOREM ResultsAreKept == Spec => []NoResultIsLost
<1>1. Init => KeptInv
  BY DEF Init, KeptInv, EmptyStream
<1>2. CInv /\ KeptInv => NoResultIsLost
  <2> SUFFICES ASSUME CInv, KeptInv, faults = 0, NEW i \in Ids(results), ~(i > results.last)
               PROVE  InHand(i) \/ Settled(i)
    BY DEF NoResultIsLost, InHand, Settled
  <2>1. results.last \in Int
    BY DEF CInv, TypeOK, IsStream
  <2> QED
    BY <2>1 DEF KeptInv, Ids
<1> QED
  BY <1>1, <1>2, KeptNext, ConsumerInvariant, PTL DEF Spec

-----------------------------------------------------------------------------
\* What a failure leaves in nobody's hands

\* No more entries are stranded than a batch for every failure, as a worker
\* has no more than a batch in hand.
SmallBatch(S) == IsFiniteSet(S) /\ Cardinality(S) <= BatchSize

StrandInv ==
  /\ \A w \in Workers : SmallBatch(Held(w))
  /\ IsFiniteSet(Stranded) /\ Cardinality(Stranded) <= faults * BatchSize

LEMMA PartOfBatch ==
  ASSUME NEW S, SmallBatch(S), NEW T, T \subseteq S
  PROVE  SmallBatch(T)
<1>1. IsFiniteSet(T) /\ Cardinality(T) <= Cardinality(S)
  BY FS_Subset DEF SmallBatch
<1>2. Cardinality(T) \in Nat /\ Cardinality(S) \in Nat
  BY <1>1, FS_CardinalityType DEF SmallBatch
<1> QED
  BY <1>1, <1>2, ConsumerAssumption DEF SmallBatch

\* A read delivers no more than a batch.
LEMMA ReplyIsBatch ==
  ASSUME CInv
  PROVE  SmallBatch(NewIds(results, BatchSize))
<1> DEFINE lo == NewFrom(results)
           hi == NewUpTo(results, BatchSize)
<1>1. results.last \in Nat /\ results.first \in Nat \ {0} /\ Len(results.log) \in Nat
  BY DEF CInv, TypeOK, IsStream
<1>2. lo \in Nat /\ hi \in Nat /\ hi <= lo + BatchSize - 1
  BY <1>1, ConsumerAssumption DEF NewFrom, NewUpTo
<1> HIDE DEF lo, hi
<1>3. IsFiniteSet(lo..hi) /\ Cardinality(lo..hi) = IF lo > hi THEN 0 ELSE hi - lo + 1
  BY <1>2, FS_Interval
<1>4. Cardinality(lo..hi) <= BatchSize
  BY <1>2, <1>3, ConsumerAssumption
<1> QED
  BY <1>3, <1>4 DEF SmallBatch, NewIds, lo, hi

\* A step without a failure strands nothing.
LEMMA StrandFrame ==
  ASSUME CInv, StrandInv, faults' = faults, Stranded' \subseteq Stranded,
         \A w \in Workers : SmallBatch(Held(w)')
  PROVE  StrandInv'
<1>1. IsFiniteSet(Stranded') /\ Cardinality(Stranded') <= Cardinality(Stranded)
  BY FS_Subset DEF StrandInv
<1>2. /\ Cardinality(Stranded) \in Nat /\ Cardinality(Stranded') \in Nat
      /\ faults * BatchSize \in Int
  BY <1>1, FS_CardinalityType, FaultsAssumption, ConsumerAssumption
     DEF StrandInv, CInv, TypeOK
<1>3. Cardinality(Stranded') <= faults * BatchSize
  BY <1>1, <1>2 DEF StrandInv
<1> QED
  BY <1>1, <1>3 DEF StrandInv, SmallBatch

\* A failure strands at most a batch.
LEMMA StrandFault ==
  ASSUME CInv, StrandInv, faults' = faults + 1,
         NEW X, SmallBatch(X), Stranded' \subseteq Stranded \cup X,
         \A w \in Workers : Held(w)' \subseteq Held(w)
  PROVE  StrandInv'
<1>1. /\ IsFiniteSet(Stranded')
      /\ Cardinality(Stranded') \in Nat /\ Cardinality(Stranded) \in Nat /\ Cardinality(X) \in Nat
      /\ Cardinality(Stranded') <= Cardinality(Stranded) + Cardinality(X)
  BY GrowsBy DEF StrandInv, SmallBatch
<1>2. faults \in Nat /\ BatchSize \in Nat
  BY FaultsAssumption, ConsumerAssumption DEF CInv, TypeOK
<1>3. faults' * BatchSize = faults * BatchSize + BatchSize /\ faults * BatchSize \in Nat
  BY <1>2
<1>4. Cardinality(Stranded') <= faults' * BatchSize
  BY <1>1, <1>2, <1>3 DEF StrandInv, SmallBatch
<1>5. \A w \in Workers : SmallBatch(Held(w)')
  BY PartOfBatch DEF StrandInv
<1> QED
  BY <1>1, <1>4, <1>5 DEF StrandInv, SmallBatch

LEMMA StrandStep == CInv /\ StrandInv /\ [Next]_vars => StrandInv'
<1> SUFFICES ASSUME CInv, StrandInv, [Next]_vars PROVE StrandInv'
  OBVIOUS
<1>a. /\ pc \in [Workers -> Labels] /\ batch \in [Workers -> Seq(Nat \ {0})]
      /\ IsStream(results, Payload, Consumers)
  BY DEF CInv, TypeOK, Consumers
<1>0. CASE batch' = batch /\ faults' = faults /\ Pending(results') = Pending(results)
  <2>1. \A w \in Workers : Held(w)' = Held(w)
    BY <1>0 DEF Held
  <2>2. Stranded' \subseteq Stranded
    BY <1>0, <2>1 DEF Stranded, Pending
  <2> QED
    BY <1>0, <2>1, <2>2, StrandFrame DEF StrandInv
<1>1. ASSUME NEW w \in Workers, Read(w) PROVE StrandInv'
  <2> DEFINE new == NewIds(results, BatchSize)
  <2>1. /\ batch'[w] = Batch(results, BatchSize)
        /\ \A v \in Workers \ {w} : batch'[v] = batch[v]
        /\ pc[w] = "read" /\ faults' = faults
    BY <1>a, <1>1 DEF Read
  <2>2. Pending(results') = Pending(results) \cup new
    BY <1>1, Delivered DEF Read
  <2>3. new \subseteq Held(w)'
    BY <1>a, <2>1, BatchIsAll, ConsumerAssumption DEF Held
  <2>4. Held(w)' \subseteq new
    BY <1>a, <1>1, <2>1, BatchFacts, ConsumerAssumption DEF Read, Held
  <2>5. Held(w) = {} /\ \A v \in Workers \ {w} : Held(v)' = Held(v)
    BY <2>1 DEF CInv, TypeOK, Held
  <2>6. SmallBatch(new)
    BY ReplyIsBatch
  <2> HIDE DEF new
  <2>7. Stranded' \subseteq Stranded
    BY <2>2, <2>3, <2>5 DEF Stranded, Pending
  <2>8. \A v \in Workers : SmallBatch(Held(v)')
    BY <2>4, <2>5, <2>6, PartOfBatch DEF StrandInv
  <2> QED
    BY <2>1, <2>7, <2>8, StrandFrame
<1>2. ASSUME NEW w \in Workers, Ack(w) PROVE StrandInv'
  <2>1. /\ Pending(results') = Pending(results) \ {Entry(w)} /\ NextEntry(w)
        /\ faults' = faults /\ pc[w] \in Busy
    BY <1>a, <1>2, XAckKeeps DEF Ack, Busy
  <2>2. \A v \in Workers \ {w} : Held(v)' = Held(v)
    BY <2>1, NextEntryKeeps DEF Held
  <2>3. Held(w)' \subseteq Held(w) /\ Held(w) \subseteq Held(w)' \cup {Entry(w)}
    BY <2>1, NextEntryKeeps, RestInHand
  <2>4. Stranded' \subseteq Stranded
    BY <2>1, <2>2, <2>3 DEF Stranded, Pending
  <2>5. \A v \in Workers : SmallBatch(Held(v)')
    BY <2>2, <2>3, PartOfBatch DEF StrandInv
  <2> QED
    BY <2>1, <2>4, <2>5, StrandFrame
<1>3. ASSUME NEW p \in Payload, Report(p) PROVE StrandInv'
  <2>1. Pending(results') = Pending(results)
    BY <1>a, <1>3, XAddKeeps, ConsumerAssumption DEF Report, Pending
  <2> QED
    BY <1>0, <1>3, <2>1 DEF Report
<1>4. ASSUME NEW w \in Workers, ReadLost(w) PROVE StrandInv'
  <2>1. /\ Pending(results') = Pending(results) \cup NewIds(results, BatchSize)
        /\ batch' = batch /\ faults' = faults + 1
    BY <1>4, Delivered DEF ReadLost, Faulty
  <2>2. \A v \in Workers : Held(v)' = Held(v)
    BY <2>1 DEF Held
  <2>3. Stranded' \subseteq Stranded \cup NewIds(results, BatchSize)
    BY <2>1, <2>2 DEF Stranded, Pending
  <2> QED
    BY <2>1, <2>2, <2>3, ReplyIsBatch, StrandFault
<1>5. ASSUME NEW w \in Workers, PersistFailed(w) PROVE StrandInv'
  <2>1. /\ NextEntry(w) /\ pc[w] \in Busy /\ faults' = faults + 1 /\ results' = results
    BY <1>5 DEF PersistFailed, Busy, Faulty
  <2>2. \A v \in Workers \ {w} : Held(v)' = Held(v)
    BY <2>1, NextEntryKeeps DEF Held
  <2>3. Held(w)' \subseteq Held(w) /\ Held(w) \subseteq Held(w)' \cup {Entry(w)}
    BY <2>1, NextEntryKeeps, RestInHand
  <2>4. Stranded' \subseteq Stranded \cup Held(w)
    BY <2>1, <2>2 DEF Stranded, Pending
  <2> QED
    BY <2>1, <2>2, <2>3, <2>4, StrandFault DEF StrandInv
<1>6. ASSUME NEW w \in Workers, DetectFailed(w) PROVE StrandInv'
  <2>1. results' = results /\ batch' = batch /\ faults' = faults + 1
    BY <1>6 DEF DetectFailed, Goto, Faulty
  <2>2. \A v \in Workers : Held(v)' = Held(v)
    BY <2>1 DEF Held
  <2>3. Stranded' \subseteq Stranded \cup Held(w)
    BY <2>1, <2>2 DEF Stranded, Pending
  <2> QED
    BY <2>1, <2>2, <2>3, StrandFault DEF StrandInv
<1>7. ASSUME NEW w \in Workers, AckFailed(w) \/ Stop(w) PROVE StrandInv'
  <2>1. /\ Pending(results') \subseteq Pending(results) /\ faults' = faults + 1
        /\ batch'[w] = <<>> /\ \A v \in Workers \ {w} : batch'[v] = batch[v]
    <3>1. Pending(XAck(results, Entry(w))) \subseteq Pending(results)
      BY <1>a, XAckKeeps
    <3> QED
      BY <1>a, <1>7, <3>1 DEF AckFailed, Stop, Abandon, Faulty
  <2>2. Held(w)' = {} /\ \A v \in Workers \ {w} : Held(v)' = Held(v)
    BY <2>1 DEF Held
  <2>3. Stranded' \subseteq Stranded \cup Held(w)
    BY <2>1, <2>2 DEF Stranded, Pending
  <2> QED
    BY <2>1, <2>2, <2>3, StrandFault DEF StrandInv
<1> QED
  BY <1>0, <1>1, <1>2, <1>3, <1>4, <1>5, <1>6, <1>7
     DEF Next, Step, Fault, Reject, Persist, Duplicate, Detect, Start, Goto, DeleteService, vars

\* A failure of Redis, Postgres or a process leaves at most one batch pending
\* in nobody's hands, also when an XACK fails and the rest of its batch is
\* dropped, and nothing but a failure leaves any.
THEOREM StrandedEntriesBounded == Spec => []StrandedPerFault
<1>1. Init => StrandInv
  <2> SUFFICES ASSUME Init PROVE StrandInv
    OBVIOUS
  <2>1. Stranded = {} /\ faults = 0
    BY EmptyStreamType DEF Init, Stranded
  <2>2. \A w \in Workers : Held(w) = {}
    BY DEF Init, Held
  <2> QED
    BY <2>1, <2>2, FS_EmptySet, ConsumerAssumption DEF StrandInv, SmallBatch
<1>2. StrandInv => StrandedPerFault
  BY DEF StrandInv, StrandedPerFault
<1> QED
  BY <1>1, <1>2, StrandStep, ConsumerInvariant, PTL DEF Spec

=============================================================================
