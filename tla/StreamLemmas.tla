---------------------------- MODULE StreamLemmas ------------------------------
(***************************************************************************)
(* What the operations on a stream preserve, for every payload, consumer    *)
(* and bound.                                                               *)
(***************************************************************************)
EXTENDS Streams, TLAPS

\* A new stream is well formed.
LEMMA EmptyStreamType ==
  ASSUME NEW P, NEW C
  PROVE  IsStream(EmptyStream, P, C) /\ Pending(EmptyStream) = {}
BY DEF IsStream, EmptyStream, Pending

\* XADD adds one entry at the end and touches neither the group nor the
\* entries that were there.
LEMMA XAddKeeps ==
  ASSUME NEW P, NEW C, NEW st, IsStream(st, P, C), NEW p \in P,
         NEW maxlen \in Nat \ {0}, NEW st2 \in XAdd(st, p, maxlen)
  PROVE  /\ IsStream(st2, P, C)
         /\ st2.last = st.last /\ st2.pel = st.pel
         /\ Len(st2.log) = Len(st.log) + 1
         /\ st2.first >= st.first
         /\ \A i \in Ids(st) : st2.log[i] = st.log[i]
<1>1. PICK f \in {st.first} \cup (st.first .. (Len(st.log) + 2 - maxlen)) :
        st2 = [log |-> Append(st.log, p), first |-> f, last |-> st.last, pel |-> st.pel]
  BY DEF XAdd
<1>2. st.log \in Seq(P) /\ Len(st.log) \in Nat
  BY DEF IsStream
<1>3. /\ Append(st.log, p) \in Seq(P)
      /\ Len(Append(st.log, p)) = Len(st.log) + 1
      /\ \A i \in 1..Len(st.log) : Append(st.log, p)[i] = st.log[i]
  BY <1>2
<1>4. f \in 1..Len(st.log) + 2 /\ f >= st.first
  BY <1>1, <1>2 DEF IsStream
<1>5. /\ st2.log = Append(st.log, p) /\ st2.first = f
      /\ st2.last = st.last /\ st2.pel = st.pel
  BY <1>1
<1> QED
  BY <1>2, <1>3, <1>4, <1>5 DEF IsStream, Ids, Pending

\* XREADGROUP > makes pending entries that were never delivered, and leaves
\* the log alone.
LEMMA XReadGroupKeeps ==
  ASSUME NEW P, NEW C, NEW st, IsStream(st, P, C), NEW c \in C, NEW count \in Nat \ {0}
  PROVE  LET st2 == XReadGroup(st, c, count) IN
         /\ IsStream(st2, P, C)
         /\ st2.log = st.log /\ st2.first = st.first
         /\ Pending(st2) = Pending(st) \cup NewIds(st, count)
         /\ NewIds(st, count) \subseteq Ids(st)
         /\ \A i \in NewIds(st, count) : i > st.last /\ i <= st2.last
         /\ st2.last >= st.last
<1> DEFINE st2 == XReadGroup(st, c, count)
           new == NewIds(st, count)
<1>1. /\ st.log \in Seq(P) /\ Len(st.log) \in Nat /\ st.first \in 1..Len(st.log) + 1
      /\ st.last \in 0..Len(st.log) /\ Pending(st) \subseteq 1..st.last
      /\ \A i \in Pending(st) : st.pel[i] \in C
  BY DEF IsStream
<1>2. /\ NewFrom(st) \in Nat /\ NewFrom(st) > st.last /\ NewFrom(st) >= 1
      /\ NewFrom(st) <= Len(st.log) + 1
  BY <1>1 DEF NewFrom
<1>3. /\ NewUpTo(st, count) \in 0..Len(st.log) /\ NewUpTo(st, count) >= st.last
  BY <1>1, <1>2 DEF NewUpTo
<1>4. \A i \in new : i \in Nat /\ i > st.last /\ i <= NewUpTo(st, count) /\ i >= 1
  BY <1>1, <1>2, <1>3 DEF NewIds
<1>5. /\ st2.log = st.log /\ st2.first = st.first /\ st2.last = NewUpTo(st, count)
      /\ Pending(st2) = Pending(st) \cup new
      /\ \A i \in Pending(st2) : st2.pel[i] = IF i \in new THEN c ELSE st.pel[i]
  BY DEF XReadGroup, Pending
<1> HIDE DEF st2, new
<1>6. IsStream(st2, P, C)
  BY <1>1, <1>3, <1>4, <1>5 DEF IsStream
<1>7. new \subseteq Ids(st)
  BY <1>1, <1>3, <1>4 DEF Ids
<1> QED
  BY <1>3, <1>4, <1>5, <1>6, <1>7 DEF st2, new

\* XACK takes one entry off the pending list.
LEMMA XAckKeeps ==
  ASSUME NEW P, NEW C, NEW st, IsStream(st, P, C), NEW id
  PROVE  LET st2 == XAck(st, id) IN
         /\ IsStream(st2, P, C)
         /\ st2.log = st.log /\ st2.first = st.first /\ st2.last = st.last
         /\ Pending(st2) = Pending(st) \ {id}
<1> DEFINE st2 == XAck(st, id)
<1>1. /\ st2.log = st.log /\ st2.first = st.first /\ st2.last = st.last
      /\ Pending(st2) = Pending(st) \ {id}
      /\ \A i \in Pending(st2) : st2.pel[i] = st.pel[i]
  BY DEF XAck, WithPel, Pending
<1> HIDE DEF st2
<1> QED
  BY <1>1 DEF IsStream, st2

\* XAUTOCLAIM gives entries away or forgets trimmed ones; it delivers nothing
\* that was not delivered before.
LEMMA XAutoClaimKeeps ==
  ASSUME NEW P, NEW C, NEW st, IsStream(st, P, C), NEW c \in C, NEW idle
  PROVE  LET st2 == XAutoClaim(st, c, idle) IN
         /\ IsStream(st2, P, C)
         /\ st2.log = st.log /\ st2.first = st.first /\ st2.last = st.last
         /\ Pending(st2) \subseteq Pending(st)
         /\ \A i \in Pending(st) \ Pending(st2) : i < st.first
<1> DEFINE st2 == XAutoClaim(st, c, idle)
<1>1. /\ st2.log = st.log /\ st2.first = st.first /\ st2.last = st.last
      /\ Pending(st2) = {k \in Pending(st) : k \in idle => k >= st.first}
      /\ \A i \in Pending(st2) : st2.pel[i] = IF i \in idle THEN c ELSE st.pel[i]
  BY DEF XAutoClaim, WithPel, Pending
<1> HIDE DEF st2
<1>2. Pending(st) \subseteq Nat /\ st.first \in Nat
  BY DEF IsStream
<1> QED
  BY <1>1, <1>2 DEF IsStream, st2

=============================================================================
