------------------------------- MODULE Streams --------------------------------
(***************************************************************************)
(* A Redis stream with one consumer group, as the coordinator and the       *)
(* checkers use it: XADD with an approximate MAXLEN, XREADGROUP that asks   *)
(* for new entries (">"), XACK and XAUTOCLAIM.  Redis is external; this is  *)
(* what the calls in queue/producer.py, queue/consumer.py, worker.py and    *)
(* reporter.py rely on.                                                     *)
(*                                                                          *)
(* An entry is named by its position in the log.  A stream is a record:     *)
(*   log    every entry ever added, the trimmed ones included               *)
(*   first  the oldest entry that is still stored                           *)
(*   last   the group's last-delivered id                                   *)
(*   pel    the pending entries list, from entry to the consumer owning it  *)
(***************************************************************************)
EXTENDS Integers, Sequences

EmptyStream == [log |-> <<>>, first |-> 1, last |-> 0, pel |-> <<>>]

Ids(st) == 1..Len(st.log)

Pending(st) == DOMAIN st.pel

\* The type of a stream whose entries carry Payload and whose group has the
\* consumers Consumer.
IsStream(st, Payload, Consumer) ==
  /\ st.log \in Seq(Payload)
  /\ st.first \in 1..Len(st.log) + 1
  /\ st.last \in 0..Len(st.log)
  /\ Pending(st) \subseteq 1..st.last
  /\ \A i \in Pending(st) : st.pel[i] \in Consumer

\* XADD key MAXLEN ~ maxlen: Redis trims whole nodes of the log, so it drops
\* any number of old entries as long as maxlen of them stay.
XAdd(st, payload, maxlen) ==
  {[log |-> Append(st.log, payload), first |-> f, last |-> st.last, pel |-> st.pel] :
     f \in {st.first} \cup (st.first .. (Len(st.log) + 2 - maxlen))}

\* The same stream with another pending entries list.
WithPel(st, pel) == [log |-> st.log, first |-> st.first, last |-> st.last, pel |-> pel]

\* The entries XREADGROUP > COUNT count delivers: the oldest stored ones that
\* the group has not seen.
NewFrom(st) == IF st.first > st.last THEN st.first ELSE st.last + 1

NewUpTo(st, count) ==
  IF NewFrom(st) + count - 1 < Len(st.log) THEN NewFrom(st) + count - 1 ELSE Len(st.log)

NewIds(st, count) == NewFrom(st)..NewUpTo(st, count)

\* They become pending, owned by the consumer that asked.
XReadGroup(st, consumer, count) ==
  [log |-> st.log, first |-> st.first, last |-> NewUpTo(st, count),
   pel |-> [i \in Pending(st) \cup NewIds(st, count) |->
              IF i \in NewIds(st, count) THEN consumer ELSE st.pel[i]]]

\* The same entries in the order of the reply.
Batch(st, count) ==
  [k \in 1..(NewUpTo(st, count) + 1 - NewFrom(st)) |-> NewFrom(st) + k - 1]

XAck(st, id) ==
  WithPel(st, [i \in Pending(st) \ {id} |-> st.pel[i]])

\* XAUTOCLAIM gives the consumer the idle entries and forgets those of them
\* that were trimmed.
XAutoClaim(st, consumer, idle) ==
  WithPel(st, [i \in {k \in Pending(st) : k \in idle => k >= st.first} |->
                 IF i \in idle THEN consumer ELSE st.pel[i]])

=============================================================================
